---- MODULE Spec2Model ----
(***************************************************************************)
(* Model of the client-side RAG pipeline of src/src/services/ragService.ts *)
(* (chunker, embedding client, similarity ranker, context assembler,       *)
(* document store).                                                        *)
(*                                                                         *)
(* Strings are sequences of one-character strings, so that length,         *)
(* trimming, splitting and substring search are computed as the code       *)
(* computes them.                                                          *)
(***************************************************************************)
EXTENDS Integers, Sequences, FiniteSets, TLC

VARIABLES
    text,        \* chunkText: the text argument
    chunkSize,   \* chunkText: the chunkSize argument
    overlap,     \* chunkText: the overlap argument
    chunks,      \* chunkText: the returned array (<<>> before the call)
    chunkPc,     \* "call" before chunkText ran, "done" after, "off" in other specifications
    documentsStore,           \* the localforage instance: stored key -> Document
    embeddingModelAvailable,  \* the module variable: "null", "true" or "false"
    now,                      \* the clock (Date.now())
    uploaded,                 \* history: per document uploaded and not deleted or cleared since,
                              \* its file, its uploadedAt and the chunks that got an embedding
    last,                     \* history: the last operation, its inputs and what it returned
    ctxDocs,       \* buildRAGContext: allDocs, what getAllDocuments returned
    ctxChunks,     \* buildRAGContext: relevantChunks, what searchDocuments returned
    ctxQuery,      \* buildRAGContext: the query argument
    finalContext,  \* buildRAGContext: the returned string (<<>> before the call)
    ctxPc,         \* "call" before buildRAGContext ran, "done" after, "off" in other specifications
    messages,        \* Chat: the messages state, a sequence of [role, content]
    sessions,        \* Chat: the sessions state (the sidebar), session id -> ChatSession
    currentSession,  \* Chat: the currentSession state, {} for null or {session}
    selectedModel,   \* Chat: the selectedModel state, "" when none is selected
    ragEnabled,      \* Chat: the ragEnabled state
    hasDocuments,    \* Chat: the hasDocuments state
    isGenerating,    \* Chat: the isGenerating state
    chatHistory,     \* services/chatHistory: the stored history, session id -> ChatSession
    storedDocs,      \* the number of documents in the document store
    attachedDocs,    \* ChatInput: the length of the attachedDocs state
    tasks,           \* the calls of handleSubmit and handleEditMessage that are suspended at
                     \* an await, each with the values its closure captured
    fileSelect,      \* ChatInput: the call of handleFileSelect suspended at uploadDocument,
                     \* {} or {the props its closure captured}
    requests,        \* history: the last call of generateChatResponse, numbered, and how it
                     \* ended (<<>> before the first call)
    ragSetting,      \* history: per session, the RAG setting chosen while it was current
    deletedSessions, \* history: the ids handleDeleteSession was called with
    chatPc,          \* "chat", "rag" and "switch" in the specifications of the chat, "off" in the others
    availableModels,   \* ModelLibrary: the availableModels state
    sortBy,            \* ModelLibrary: the sortBy state
    selectedCategory,  \* ModelLibrary: the selectedCategory state
    installedModels,   \* the names of the models the Ollama server has
    network,           \* history: the requests made so far, each [by, host, path]
    libPc              \* "open" while the model library is open, "closed" before, "off" in
                       \* the other specifications

chunkVars == <<text, chunkSize, overlap, chunks, chunkPc>>

storeVars == <<documentsStore, embeddingModelAvailable, now, uploaded, last>>

ctxVars == <<ctxDocs, ctxChunks, ctxQuery, finalContext, ctxPc>>

chatVars == <<messages, sessions, currentSession, selectedModel, ragEnabled, hasDocuments,
              isGenerating, chatHistory, storedDocs, attachedDocs, tasks, fileSelect,
              requests, ragSetting, deletedSessions, chatPc>>

libVars == <<availableModels, sortBy, selectedCategory, installedModels, network, libPc>>

vars == <<chunkVars, storeVars, ctxVars, chatVars, libVars>>

\* The model library is not mounted in the other specifications.
LibOff ==
    /\ availableModels = <<>>
    /\ sortBy = "popular"
    /\ selectedCategory = "all"
    /\ installedModels = {}
    /\ network = {}
    /\ libPc = "off"

\* The chat component is not mounted in the specifications of the pipeline.
ChatOff ==
    /\ messages = <<>>
    /\ sessions = <<>>
    /\ currentSession = {}
    /\ selectedModel = ""
    /\ ragEnabled = FALSE
    /\ hasDocuments = FALSE
    /\ isGenerating = FALSE
    /\ chatHistory = <<>>
    /\ storedDocs = 0
    /\ attachedDocs = 0
    /\ tasks = <<>>
    /\ fileSelect = {}
    /\ requests = <<>>
    /\ ragSetting = <<>>
    /\ deletedSessions = {}
    /\ chatPc = "off"

----------------------------------------------------------------------------
(* Bounds of the model *)

MaxTextLen == 5
MaxChunkSize == 3
MaxOverlap == 10

----------------------------------------------------------------------------
(* Generic helpers *)

Min(S) == CHOOSE x \in S : \A y \in S : x <= y
Max(S) == CHOOSE x \in S : \A y \in S : x >= y

\* The sequence f with its elements computed once.
Array(f) == <<>> \o f

\* The k-th smallest element (k >= 1) of a finite set of integers.
Nth(S, k) == CHOOSE x \in S : Cardinality({y \in S : y < x}) = k - 1

\* Characters String.prototype.trim removes.
Whitespace == {" ", "\n", "\t"}

\* The delimiter class of the regular expression /[.!?]+/.
SentenceDelims == {".", "!", "?"}

\* String.prototype.trim
Trim(s) ==
    IF \A i \in 1..Len(s) : s[i] \in Whitespace THEN <<>>
    ELSE LET first == CHOOSE i \in 1..Len(s) :
                        s[i] \notin Whitespace /\ \A j \in 1..(i-1) : s[j] \in Whitespace
             last_ == CHOOSE i \in 1..Len(s) :
                        s[i] \notin Whitespace /\ \A j \in (i+1)..Len(s) : s[j] \in Whitespace
         IN  SubSeq(s, first, last_)

\* text.split(/[.!?]+/).filter(s => s.trim().length > 0): the maximal runs of
\* non-delimiter characters, in order, that are not blank (the empty strings
\* split() yields at the ends of the text are dropped by the filter too).
SplitSentences(s) ==
    LET starts == {i \in 1..Len(s) :
                      /\ s[i] \notin SentenceDelims
                      /\ (i = 1 \/ s[i-1] \in SentenceDelims)}
        endOf(i) == Min({j \in i..Len(s) : j = Len(s) \/ s[j+1] \in SentenceDelims})
        runs == [k \in 1..Cardinality(starts) |->
                    SubSeq(s, Nth(starts, k), endOf(Nth(starts, k)))]
    IN  SelectSeq(runs, LAMBDA r : Len(Trim(r)) > 0)

\* String.prototype.split(' '): one field per separator plus one; fields may be
\* empty.
SplitSpace(s) ==
    LET seps == {i \in 1..Len(s) : s[i] = " "}
        n == Cardinality(seps)
        pos(k) == IF k = 0 THEN 0 ELSE IF k = n + 1 THEN Len(s) + 1 ELSE Nth(seps, k)
    IN  [k \in 1..(n + 1) |-> SubSeq(s, pos(k-1) + 1, pos(k) - 1)]

\* Array.prototype.slice(start) with one argument: a negative start counts from
\* the end, and -0 is 0.
Slice(arr, start) ==
    LET from == IF start < 0 THEN Max({Len(arr) + start, 0})
                ELSE Min({start, Len(arr)})
    IN  SubSeq(arr, from + 1, Len(arr))

\* Array.prototype.join(sep)
RECURSIVE Join(_, _)
Join(arr, sep) ==
    IF Len(arr) = 0 THEN <<>>
    ELSE IF Len(arr) = 1 THEN arr[1]
    ELSE arr[1] \o sep \o Join(Tail(arr), sep)

----------------------------------------------------------------------------
(* chunkText *)

\* The body of the for loop of chunkText, from sentence i on; st is
\* [chunks, currentChunk].
RECURSIVE chunkLoop(_, _, _, _, _)
chunkLoop(sentences, i, st, size, ovl) ==
    IF i > Len(sentences) THEN st
    ELSE
        LET trimmedSentence == Trim(sentences[i])
            currentChunk == st.currentChunk
        IN  IF Len(currentChunk \o trimmedSentence) > size /\ Len(currentChunk) > 0
            THEN LET words == SplitSpace(currentChunk)
                     overlapWords == Slice(words, -(ovl \div 5))
                 IN  chunkLoop(sentences, i + 1,
                        [chunks |-> Append(st.chunks, Trim(currentChunk)),
                         currentChunk |-> Join(overlapWords, <<" ">>) \o <<" ">> \o trimmedSentence],
                        size, ovl)
            ELSE chunkLoop(sentences, i + 1,
                        [chunks |-> st.chunks,
                         currentChunk |-> currentChunk
                                \o (IF Len(currentChunk) > 0 THEN <<".", " ">> ELSE <<>>)
                                \o trimmedSentence],
                        size, ovl)

\* chunkText without the push of the last chunk after the loop.
chunkTextNoFlush(t, size, ovl) ==
    chunkLoop(SplitSentences(t), 1, [chunks |-> <<>>, currentChunk |-> <<>>], size, ovl).chunks

chunkText(t, size, ovl) ==
    LET sentences == SplitSentences(t)
        st == chunkLoop(sentences, 1, [chunks |-> <<>>, currentChunk |-> <<>>], size, ovl)
    IN  IF Len(Trim(st.currentChunk)) > 0
        THEN Append(st.chunks, Trim(st.currentChunk))
        ELSE st.chunks

----------------------------------------------------------------------------
(* Specification of the chunker: chunkText applied to every bounded input *)

Alphabet == {"a", "b", " ", "."}

Texts == UNION {[1..n -> Alphabet] : n \in 0..MaxTextLen}

InitChunk ==
    /\ text \in Texts
    /\ chunkSize \in 1..MaxChunkSize
    /\ overlap \in 0..MaxOverlap
    /\ chunks = <<>>
    /\ chunkPc = "call"
    /\ documentsStore = [k \in {} |-> {}]
    /\ embeddingModelAvailable = "null"
    /\ now = 0
    /\ uploaded = [k \in {} |-> {}]
    /\ last = [op |-> "none"]
    /\ ctxDocs = <<>>
    /\ ctxChunks = <<>>
    /\ ctxQuery = <<>>
    /\ finalContext = <<>>
    /\ ctxPc = "off"
    /\ ChatOff
    /\ LibOff

ChunkTextCall ==
    /\ chunkPc = "call"
    /\ chunks' = chunkText(text, chunkSize, overlap)
    /\ chunkPc' = "done"
    /\ UNCHANGED <<text, chunkSize, overlap, storeVars, ctxVars, chatVars, libVars>>

NextChunk == ChunkTextCall

SpecChunk == InitChunk /\ [][NextChunk]_vars

----------------------------------------------------------------------------
(* Properties of the chunker (SpecChunk) *)

\* s occurs in t as a contiguous substring.
IsSubstring(s, t) ==
    \E i \in 0..(Len(t) - Len(s)) : SubSeq(t, i + 1, i + Len(s)) = s

\* t starts with s.
StartsWith(t, s) == Len(s) <= Len(t) /\ SubSeq(t, 1, Len(s)) = s

\* The trimmed non-blank sentences of the input, in input order.
TrimmedSentences(t) == [i \in 1..Len(SplitSentences(t)) |-> Trim(SplitSentences(t)[i])]

\* Sentences j..m of the input joined the way chunkText joins them.
JoinedSentences(t, j, m) == Join(SubSeq(TrimmedSentences(t), j, m), <<".", " ">>)

\* C1 (as claimed): every chunk chunkText returns has at most chunkSize
\* characters.
C1_ChunksWithinBudget ==
    chunkPc = "done" => \A i \in 1..Len(chunks) : Len(chunks[i]) <= chunkSize

\* The last min(k, n) space-separated words of a chunk, joined by spaces; no
\* word when k = 0.
LastWords(chunk, k) ==
    LET w == SplitSpace(chunk)
    IN  IF k = 0 THEN <<>>
        ELSE Join(SubSeq(w, Max({1, Len(w) - k + 1}), Len(w)), <<" ">>)

\* A chunk after the first is the carried-over words of the chunk before it
\* followed by consecutive sentences of the input, and nothing else.
CarriesExactly(i, k) ==
    LET carried == LastWords(chunks[i-1], k)
        n == Len(TrimmedSentences(text))
    IN  /\ StartsWith(chunks[i], Trim(carried))
        /\ \E j \in 1..n : \E m \in j..n :
              chunks[i] = Trim(carried \o <<" ">> \o JoinedSentences(text, j, m))

\* C2 (as claimed): every chunk after the first starts with the last
\* floor(overlap/5) words of the chunk before it and carries over no more than
\* that; with overlap in 0..4 nothing of the previous chunk is repeated.
C2_OverlapIsLastWords ==
    chunkPc = "done" =>
        \A i \in 2..Len(chunks) : CarriesExactly(i, overlap \div 5)

\* The first chunk in which s occurs (0 when it occurs in none).
FirstChunkWith(s) ==
    LET hit == {c \in 1..Len(chunks) : IsSubstring(s, chunks[c])}
    IN  IF hit = {} THEN 0 ELSE Min(hit)

\* Every non-blank sentence of the input occurs in some chunk.
NoSentenceLost ==
    \A i \in 1..Len(TrimmedSentences(text)) :
        FirstChunkWith(TrimmedSentences(text)[i]) > 0

\* C3 (as claimed): no sentence is lost, and the chunks of first occurrence
\* follow the order of the sentences.
C3_FirstOccurrencesInOrder ==
    chunkPc = "done" =>
        /\ NoSentenceLost
        /\ \A i, j \in 1..Len(TrimmedSentences(text)) :
              i < j => FirstChunkWith(TrimmedSentences(text)[i])
                          <= FirstChunkWith(TrimmedSentences(text)[j])

\* C3 (amended): no sentence is lost, and the sentences can be assigned, in
\* input order, to chunks that contain them with chunk numbers that never
\* decrease.
C3_SentencesKeptInOrder ==
    chunkPc = "done" =>
        LET ts == TrimmedSentences(text)
        IN  /\ NoSentenceLost
            /\ \E f \in [1..Len(ts) -> 1..Max({1, Len(chunks)})] :
                  /\ \A i \in 1..Len(ts) :
                        f[i] <= Len(chunks) /\ IsSubstring(ts[i], chunks[f[i]])
                  /\ \A i, j \in 1..Len(ts) : i < j => f[i] <= f[j]

\* C3 witness: three sentences spread over three chunks, the third of which
\* also occurs in the first chunk.
C3_Witness ==
    /\ chunkPc = "done"
    /\ Len(TrimmedSentences(text)) = 3
    /\ Len(chunks) = 3
    /\ FirstChunkWith(TrimmedSentences(text)[2]) = 2
    /\ FirstChunkWith(TrimmedSentences(text)[3]) = 1

----------------------------------------------------------------------------
(* Strings used by the store, the ranker and the context assembler *)

UpperCase == <<"A", "B", "C", "D", "E", "F", "G", "H", "I", "J", "K", "L", "M",
               "N", "O", "P", "Q", "R", "S", "T", "U", "V", "W", "X", "Y", "Z">>
LowerCase == <<"a", "b", "c", "d", "e", "f", "g", "h", "i", "j", "k", "l", "m",
               "n", "o", "p", "q", "r", "s", "t", "u", "v", "w", "x", "y", "z">>

\* String.prototype.toLowerCase
ToLowerCase(s) ==
    [i \in 1..Len(s) |->
        IF \E k \in 1..26 : UpperCase[k] = s[i]
        THEN LowerCase[CHOOSE k \in 1..26 : UpperCase[k] = s[i]]
        ELSE s[i]]

\* String.prototype.endsWith
EndsWith(s, suffix) ==
    Len(suffix) <= Len(s) /\ SubSeq(s, Len(s) - Len(suffix) + 1, Len(s)) = suffix

\* s.split(/\s+/): the maximal runs of non-whitespace characters (the empty
\* strings split() yields at the ends are shorter than any kept word).
SplitWhitespace(s) ==
    LET starts == {i \in 1..Len(s) :
                      /\ s[i] \notin Whitespace
                      /\ (i = 1 \/ s[i-1] \in Whitespace)}
        endOf(i) == Min({j \in i..Len(s) : j = Len(s) \/ s[j+1] \in Whitespace})
    IN  [k \in 1..Cardinality(starts) |->
            SubSeq(s, Nth(starts, k), endOf(Nth(starts, k)))]

\* The elements of a sequence.
Range(f) == {f[i] : i \in DOMAIN f}

----------------------------------------------------------------------------
(* Embedding client *)

EMBEDDING_MODEL == "nomic-embed-text"

\* What GET /api/tags can answer: the request fails ("down"), a status that
\* is not ok ("error"), a model list without or with the embedding model.
ServerStates == {"down", "error", "noModel", "hasModel"}

\* checkEmbeddingModel: cached is the module variable embeddingModelAvailable
\* ("null", "true" or "false"). Returns the answer, the new value of the variable
\* and whether /api/tags was requested.
checkEmbeddingModel(cached, server) ==
    IF cached # "null"
    THEN [result |-> (cached = "true"), cached |-> cached, requested |-> FALSE]
    ELSE [result |-> (server = "hasModel"),
          cached |-> IF server = "hasModel" THEN "true" ELSE "false",
          requested |-> TRUE]

\* generateEmbedding(text): {} when it throws (the request fails or the status
\* is not ok), {v} when it returns the vector v = embed[text] the embedding
\* model computes for the text.
generateEmbedding(embed, t, requestOk) == IF requestOk THEN {embed[t]} ELSE {}

----------------------------------------------------------------------------
(* File parsers *)

\* A file: its name, its MIME type, its size in bytes, the text its format's extractor yields
\* (file.text(), the PDF text layer, mammoth's raw text, the sheets as CSV) and
\* what OCR reads from its pages.
FileText(f) == f.extracted

\* parsePDF: the text layer, or OCR when it has fewer than 10 characters.
parsePDF(f) ==
    IF Len(Trim(f.extracted)) < 10
    THEN IF Len(Trim(f.ocr)) < 10
         THEN [ok |-> FALSE, content |-> <<>>]
         ELSE [ok |-> TRUE, content |-> Trim(f.ocr)]
    ELSE [ok |-> TRUE, content |-> Trim(f.extracted)]

\* parseDOCX
parseDOCX(f) ==
    IF Len(f.extracted) = 0 \/ Len(Trim(f.extracted)) < 10
    THEN [ok |-> FALSE, content |-> <<>>]
    ELSE [ok |-> TRUE, content |-> f.extracted]

\* parseExcel
parseExcel(f) ==
    IF Len(Trim(f.extracted)) < 10
    THEN [ok |-> FALSE, content |-> <<>>]
    ELSE [ok |-> TRUE, content |-> Trim(f.extracted)]

\* parseFile: ok is FALSE when it throws.
parseFile(f) ==
    LET fileName == ToLowerCase(f.name)
    IN  IF \/ f.type = "text/plain"
           \/ EndsWith(fileName, <<".", "t", "x", "t">>)
           \/ EndsWith(fileName, <<".", "m", "d">>)
        THEN [ok |-> TRUE, content |-> FileText(f)]
        ELSE IF f.type = "application/pdf" \/ EndsWith(fileName, <<".", "p", "d", "f">>)
        THEN parsePDF(f)
        ELSE IF \/ f.type = "application/vnd.openxmlformats-officedocument.wordprocessingml.document"
                \/ EndsWith(fileName, <<".", "d", "o", "c", "x">>)
        THEN parseDOCX(f)
        ELSE IF \/ f.type = "application/vnd.openxmlformats-officedocument.spreadsheetml.sheet"
                \/ f.type = "application/vnd.ms-excel"
                \/ EndsWith(fileName, <<".", "x", "l", "s", "x">>)
                \/ EndsWith(fileName, <<".", "x", "l", "s">>)
        THEN parseExcel(f)
        ELSE [ok |-> FALSE, content |-> <<>>]

----------------------------------------------------------------------------
(* uploadDocument *)

\* The chunkSize and overlap uploadDocument passes to chunkText.
UploadChunkSize == 800
UploadOverlap == 100

\* The chunks of an uploadDocument whose failed embedding requests lose their
\* chunk.
UploadChunksDroppingFailed(documentId, textChunks, useEmbeddings, outcomes) ==
    SelectSeq([k \in 1..Len(textChunks) |->
                [id |-> <<documentId, "_chunk_", k - 1>>,
                 documentId |-> documentId,
                 content |-> textChunks[k],
                 embedding |-> IF useEmbeddings THEN outcomes[k] ELSE {},
                 metadata |-> [chunkIndex |-> k - 1]]],
              LAMBDA c : ~useEmbeddings \/ c.embedding # {})

\* The chunks uploadDocument builds: outcomes[i] is the outcome of the
\* generateEmbedding call for chunk i, made only when useEmbeddings; a chunk
\* whose call throws is stored without an embedding. A chunk's optional
\* embedding is {} (absent) or {v}; chunk ids are <<documentId, "_chunk_", i>>.
UploadChunks(documentId, textChunks, useEmbeddings, outcomes) ==
    [k \in 1..Len(textChunks) |->
        [id |-> <<documentId, "_chunk_", k - 1>>,
         documentId |-> documentId,
         content |-> textChunks[k],
         embedding |-> IF useEmbeddings /\ outcomes[k] # {} THEN outcomes[k] ELSE {},
         metadata |-> [chunkIndex |-> k - 1]]]

\* The Document uploadDocument stores and returns.
NewDocument(documentId, f, uploadedAt, content, docChunks) ==
    [id |-> documentId,
     name |-> f.name,
     type |-> f.type,
     size |-> f.size,
     uploadedAt |-> uploadedAt,
     content |-> content,
     chunks |-> docChunks]

----------------------------------------------------------------------------
(* Document store: documentsStore is a function from the stored keys to the
   stored documents *)

\* localforage setItem
SetItem(store, key, value) ==
    [k \in DOMAIN store \cup {key} |-> IF k = key THEN value ELSE store[k]]

\* localforage removeItem
RemoveItem(store, key) == [k \in DOMAIN store \ {key} |-> store[k]]

\* Keys are "doc_<Date.now()>_<random>", modelled as <<time, random>>; iterate
\* visits them in key order.
KeyBefore(a, b) == a[1] < b[1] \/ (a[1] = b[1] /\ a[2] < b[2])

\* documentsStore.iterate: the stored documents in key order.
Iterate(store) ==
    LET keys == DOMAIN store
    IN  Array([p \in 1..Cardinality(keys) |->
            store[CHOOSE k \in keys :
                    Cardinality({j \in keys : KeyBefore(j, k)}) = p - 1]])

\* A sort of the documents that puts the oldest first.
SortOldestFirst(docs) ==
    LET rank == Array([i \in 1..Len(docs) |->
                    Cardinality({j \in 1..Len(docs) :
                        \/ docs[j].uploadedAt < docs[i].uploadedAt
                        \/ (docs[j].uploadedAt = docs[i].uploadedAt /\ j < i)})])
    IN  Array([p \in 1..Len(docs) |-> docs[CHOOSE i \in 1..Len(docs) : rank[i] = p - 1]])

\* documents.sort((a, b) => time(b.uploadedAt) - time(a.uploadedAt)): a stable
\* sort, newest first.
SortNewestFirst(docs) ==
    LET rank == Array([i \in 1..Len(docs) |->
                    Cardinality({j \in 1..Len(docs) :
                        \/ docs[j].uploadedAt > docs[i].uploadedAt
                        \/ (docs[j].uploadedAt = docs[i].uploadedAt /\ j < i)})])
    IN  Array([p \in 1..Len(docs) |-> docs[CHOOSE i \in 1..Len(docs) : rank[i] = p - 1]])

getAllDocuments(store) == SortNewestFirst(Iterate(store))

\* getDocument: {} for null, {document} for the stored document.
getDocument(store, id) == IF id \in DOMAIN store THEN {store[id]} ELSE {}

\* A deleteDocument that removes nothing.
deleteDocumentKeeping(store, id) == store

\* deleteDocument: the store afterwards.
deleteDocument(store, id) == RemoveItem(store, id)

\* clearAllDocuments: the store afterwards.
clearAllDocuments(store) == [k \in {} |-> {}]

----------------------------------------------------------------------------
(* Inputs of the store specification *)

MaxDocs == 2
MaxTopK == 2

\* The clock runs from 0 to MaxTime.
MaxTime == MaxDocs - 1

\* The random parts of document ids.
Rnds == {1}

\* n characters that are no delimiter and no space.
Filler(n) == [i \in 1..n |-> "x"]

RECURSIVE Repeat(_, _)
Repeat(s, n) == IF n = 0 THEN <<>> ELSE s \o Repeat(s, n - 1)

\* A text of two sentences that chunkText(_, 800, 100) splits into two chunks:
\* "mac", a word of 750 characters and 21 words "x" (796 characters), then a
\* short sentence.
LongText ==
    <<"m", "a", "c", " ">> \o Filler(750) \o Repeat(<<" ", "x">>, 21)
    \o <<".", " ", "l", "a", "p", "t", "o", "p", " ", "m", "a", "c", " ", "m", "a", "c", " ", "n", "o", "t", "e", "b", "o", "o", "k", " ", "p", "c">>

Files ==
    {[name |-> <<"a", ".", "t", "x", "t">>, type |-> "text/plain",
      extracted |-> <<"M", "a", "c", " ", "s", "p", "e", "c", "s", "!", " ", "A", "p", "p", "l", "e", " ", "M", "a", "c", "B", "o", "o", "k", "?", " ", "t", "h", "e", " ", "c", "o", "n", "s", "t", "r", "u", "c", "t", "o", "r">>, ocr |-> <<>>,
      size |-> 41],
     [name |-> <<"c", ".", "p", "d", "f">>, type |-> "application/pdf",
      extracted |-> <<>>, ocr |-> LongText, size |-> 2048],
     [name |-> <<"d", ".", "d", "o", "c", "x">>, type |-> "",
      extracted |-> <<"t", "o", "o", " ", "s", "h", "o", "r", "t">>, ocr |-> <<>>,
      size |-> 512]}

Queries ==
    {<<"M", "a", "c", "B", "o", "o", "k", " ", "p", "c">>,
     <<"t", "h", "e", " ", "c", "o", "n", "s", "t", "r", "u", "c", "t", "o", "r">>}

\* The keys uploadDocument can generate.
Ids == (0..MaxTime) \X Rnds

\* The empty store.
EmptyStore == [k \in {} |-> {}]

\* parseFile and chunkText on the files above, computed once.
ParsedFiles == [f \in Files |-> parseFile(f)]
FileChunks == [f \in Files |-> chunkText(ParsedFiles[f].content, UploadChunkSize, UploadOverlap)]

\* The chunk contents the files above give, in a fixed order.
StoredContents == UNION {Range(FileChunks[f]) : f \in Files}

\* The embedding model: the (non-zero) vector it computes for each text it is
\* asked about: the chunk contents get the vectors of ChunkVectors by length
\* (the shortest the first), the last of them of another dimension, the
\* queries vectors that rank the chunks differently.
ChunkVectors == <<(<<1, 0>>), (<<-1, 1>>), (<<2>>)>>
QueryVectors ==
    (<<"M", "a", "c", "B", "o", "o", "k", " ", "p", "c">> :> <<1, 0>>)
    @@ (<<"t", "h", "e", " ", "c", "o", "n", "s", "t", "r", "u", "c", "t", "o", "r">> :> <<0, 1>>)
EmbeddingModelOutput ==
    [t \in StoredContents \cup Queries |->
        IF t \in Queries THEN QueryVectors[t]
        ELSE ChunkVectors[1 + (Cardinality({u \in StoredContents : Len(u) < Len(t)}) % 3)]]

----------------------------------------------------------------------------
(* Similarity ranker *)

\* A score is the real number n / sqrt(d), kept exactly as the pair [n, d]
\* with d >= 0; d = 0 is NaN (0 / 0).
Score(n, d) == [n |-> n, d |-> d]
IsNaN(s) == s.d = 0
SignedSquare(x) == IF x < 0 THEN 0 - x * x ELSE x * x

\* s < t on numbers; false when either is NaN.
ScoreLess(s, t) ==
    /\ ~IsNaN(s)
    /\ ~IsNaN(t)
    /\ SignedSquare(s.n) * t.d < SignedSquare(t.n) * s.d

RECURSIVE DotProduct(_, _, _)
DotProduct(a, b, i) ==
    IF i > Len(a) THEN 0 ELSE a[i] * b[i] + DotProduct(a, b, i + 1)

\* cosineSimilarity: dotProduct / (sqrt(normA) * sqrt(normB)), 0 when the
\* lengths differ.
cosineSimilarity(a, b) ==
    IF Len(a) # Len(b) THEN Score(0, 1)
    ELSE Score(DotProduct(a, b, 1), DotProduct(a, a, 1) * DotProduct(b, b, 1))

\* A sort of scoredChunks that puts the lowest score first.
SortByScoreAscending(scored) ==
    LET rank == Array([i \in 1..Len(scored) |->
                    Cardinality({j \in 1..Len(scored) :
                        \/ ScoreLess(scored[j].score, scored[i].score)
                        \/ (~ScoreLess(scored[i].score, scored[j].score) /\ j < i)})])
    IN  Array([p \in 1..Len(scored) |-> scored[CHOOSE i \in 1..Len(scored) : rank[i] = p - 1]])

\* scoredChunks.sort((a, b) => b.score - a.score): a stable sort, highest
\* score first.
SortByScore(scored) ==
    LET rank == Array([i \in 1..Len(scored) |->
                    Cardinality({j \in 1..Len(scored) :
                        \/ ScoreLess(scored[i].score, scored[j].score)
                        \/ (~ScoreLess(scored[j].score, scored[i].score) /\ j < i)})])
    IN  Array([p \in 1..Len(scored) |-> scored[CHOOSE i \in 1..Len(scored) : rank[i] = p - 1]])

\* Array.prototype.slice(0, end)
SliceTo(arr, end) ==
    IF end < 0 THEN SubSeq(arr, 1, Max({Len(arr) + end, 0}))
    ELSE SubSeq(arr, 1, Min({end, Len(arr)}))

\* The synonyms table of expandQueryTerms.
synonyms ==
    (<<"m", "a", "c">> :>
        <<<<"a", "p", "p", "l", "e">>,
          <<"m", "a", "c", "b", "o", "o", "k">>,
          <<"i", "m", "a", "c">>,
          <<"m", "a", "c", "i", "n", "t", "o", "s", "h">>,
          <<"m", "a", "c", "o", "s">>>>)
    @@ (<<"a", "p", "p", "l", "e">> :>
        <<<<"m", "a", "c">>,
          <<"m", "a", "c", "b", "o", "o", "k">>,
          <<"i", "m", "a", "c">>,
          <<"i", "p", "h", "o", "n", "e">>,
          <<"i", "p", "a", "d">>>>)
    @@ (<<"m", "a", "c", "b", "o", "o", "k">> :>
        <<<<"m", "a", "c">>,
          <<"a", "p", "p", "l", "e">>,
          <<"l", "a", "p", "t", "o", "p">>>>)
    @@ (<<"d", "e", "l", "l">> :>
        <<<<"l", "a", "t", "i", "t", "u", "d", "e">>,
          <<"o", "p", "t", "i", "p", "l", "e", "x">>,
          <<"p", "r", "e", "c", "i", "s", "i", "o", "n">>,
          <<"x", "p", "s">>>>)
    @@ (<<"l", "a", "p", "t", "o", "p">> :>
        <<<<"n", "o", "t", "e", "b", "o", "o", "k">>,
          <<"p", "o", "r", "t", "a", "b", "l", "e">>,
          <<"m", "a", "c", "b", "o", "o", "k">>,
          <<"l", "a", "t", "i", "t", "u", "d", "e">>>>)
    @@ (<<"c", "o", "m", "p", "u", "t", "e", "r">> :>
        <<<<"p", "c">>,
          <<"m", "a", "c", "h", "i", "n", "e">>,
          <<"w", "o", "r", "k", "s", "t", "a", "t", "i", "o", "n">>,
          <<"d", "e", "s", "k", "t", "o", "p">>,
          <<"l", "a", "p", "t", "o", "p">>>>)
    @@ (<<"s", "p", "e", "c", "s">> :>
        <<<<"s", "p", "e", "c", "i", "f", "i", "c", "a", "t", "i", "o", "n", "s">>,
          <<"s", "p", "e", "c">>,
          <<"c", "o", "n", "f", "i", "g", "u", "r", "a", "t", "i", "o", "n">>,
          <<"c", "o", "n", "f", "i", "g">>,
          <<"r", "e", "q", "u", "i", "r", "e", "m", "e", "n", "t", "s">>>>)
    @@ (<<"s", "p", "e", "c", "i", "f", "i", "c", "a", "t", "i", "o", "n", "s">> :>
        <<<<"s", "p", "e", "c", "s">>,
          <<"s", "p", "e", "c">>,
          <<"c", "o", "n", "f", "i", "g", "u", "r", "a", "t", "i", "o", "n">>,
          <<"c", "o", "n", "f", "i", "g">>>>)
    @@ (<<"p", "r", "i", "c", "e">> :>
        <<<<"c", "o", "s", "t">>,
          <<"p", "r", "i", "c", "i", "n", "g">>,
          <<"a", "m", "o", "u", "n", "t">>,
          <<"f", "e", "e">>>>)
    @@ (<<"c", "o", "s", "t">> :>
        <<<<"p", "r", "i", "c", "e">>,
          <<"p", "r", "i", "c", "i", "n", "g">>,
          <<"a", "m", "o", "u", "n", "t">>,
          <<"e", "x", "p", "e", "n", "s", "e">>>>)

\* Lower-case words for which synonyms[word] is truthy although the table does
\* not list them: the properties the object literal inherits from
\* Object.prototype. Their value is no array, so .forEach on it throws.
InheritedKeys == {<<"c", "o", "n", "s", "t", "r", "u", "c", "t", "o", "r">>,
                  <<"_", "_", "p", "r", "o", "t", "o", "_", "_">>}

\* expandQueryTerms: the set of terms; ok is FALSE when it throws.
expandQueryTerms(query) ==
    LET words == SelectSeq(SplitWhitespace(ToLowerCase(query)), LAMBDA w : Len(w) > 2)
    IN  IF \E w \in Range(words) : w \in InheritedKeys
        THEN [ok |-> FALSE, terms |-> {}]
        ELSE [ok |-> TRUE,
              terms |-> Range(words) \cup
                        UNION {Range(synonyms[w]) : w \in Range(words) \cap DOMAIN synonyms}]

\* The number of matches String.prototype.match finds for a global regular
\* expression of the literal term: leftmost first, each match resuming after
\* the one before.
RECURSIVE MatchesFrom(_, _, _)
MatchesFrom(positions, from, termLen) ==
    LET rest == {p \in positions : p >= from}
    IN  IF rest = {} THEN 0
        ELSE 1 + MatchesFrom(rest, Min(rest) + termLen, termLen)

CountMatches(term, s) ==
    MatchesFrom({i \in 1..(Len(s) - Len(term) + 1) :
                    s[i] = term[1] /\ SubSeq(s, i, i + Len(term) - 1) = term},
                1, Len(term))

\* The keyword score of a chunk: the matches of every term, summed.
RECURSIVE KeywordScore(_, _)
KeywordScore(terms, lowered) ==
    IF terms = {} THEN 0
    ELSE LET t == CHOOSE x \in terms : TRUE
         IN  CountMatches(t, lowered) + KeywordScore(terms \ {t}, lowered)

\* The keyword score of a chunk's content: the matches of every term in the
\* lower-cased content. The scores of the inputs above are computed once.
KeywordScoreTable ==
    [terms \in {expandQueryTerms(q).terms : q \in Queries} |->
        [c \in StoredContents |-> KeywordScore(terms, ToLowerCase(c))]]
ChunkKeywordScore(terms, content) ==
    IF terms \in DOMAIN KeywordScoreTable /\ content \in StoredContents
    THEN KeywordScoreTable[terms][content]
    ELSE KeywordScore(terms, ToLowerCase(content))

\* The chunks of the documents, in document order then chunk order, each with
\* its document's name.
RECURSIVE ChunksOf(_, _)
ChunksOf(documents, i) ==
    IF i > Len(documents) THEN <<>>
    ELSE [k \in 1..Len(documents[i].chunks) |->
             [chunk |-> documents[i].chunks[k], docName |-> documents[i].name]]
         \o ChunksOf(documents, i + 1)

\* documents.some((doc) => doc.chunks.some((c) => c.embedding))
HasEmbeddings(documents) ==
    \E i \in 1..Len(documents) : \E k \in 1..Len(documents[i].chunks) :
        documents[i].chunks[k].embedding # {}

\* scoredChunks of the vector branch, before the sort: the chunks that have an
\* embedding, with their cosine similarity to the query embedding.
VectorScoredChunks(documents, queryEmbedding) ==
    LET all == SelectSeq(ChunksOf(documents, 1), LAMBDA c : c.chunk.embedding # {})
    IN  Array([k \in 1..Len(all) |->
            [chunk |-> all[k].chunk,
             score |-> cosineSimilarity(queryEmbedding,
                                        CHOOSE v \in all[k].chunk.embedding : TRUE),
             docName |-> all[k].docName]])

\* scoredChunks of the keyword branch, before the sort: the chunks with a
\* positive keyword score.
KeywordScoredChunks(documents, expandedTerms) ==
    LET all == ChunksOf(documents, 1)
        scoredAll == Array([k \in 1..Len(all) |->
            [chunk |-> all[k].chunk,
             score |-> Score(ChunkKeywordScore(expandedTerms, all[k].chunk.content), 1),
             docName |-> all[k].docName]])
    IN  SelectSeq(scoredAll, LAMBDA c : c.score.n > 0)

\* slice(0, topK).map(...): the returned chunks, with similarity and
\* documentName added to their metadata; the keyword branch stores score / 10.
TopChunks(sorted, topK, divisor) ==
    LET top == SliceTo(sorted, topK)
    IN  Array([k \in 1..Len(top) |->
            [id |-> top[k].chunk.id,
             documentId |-> top[k].chunk.documentId,
             content |-> top[k].chunk.content,
             embedding |-> top[k].chunk.embedding,
             metadata |-> [chunkIndex |-> top[k].chunk.metadata.chunkIndex,
                           similarity |-> Score(top[k].score.n, top[k].score.d * divisor * divisor),
                           documentName |-> top[k].docName]]])

\* searchDocuments up to the sort, over the documents getAllDocuments
\* returned; qOutcome is the outcome of the generateEmbedding call for the
\* query, should it be made. ok is FALSE when an exception was thrown, sorted
\* is scoredChunks after the sort, divisor what the stored similarity is
\* divided by, embeddingRequests the number of embedding requests issued.
RankedChunks(documents, query, qOutcome) ==
    IF HasEmbeddings(documents)
    THEN IF qOutcome = {}
         THEN [ok |-> FALSE, sorted |-> <<>>, divisor |-> 1, embeddingRequests |-> 1]
         ELSE [ok |-> TRUE,
               sorted |-> SortByScore(VectorScoredChunks(documents,
                                            CHOOSE v \in qOutcome : TRUE)),
               divisor |-> 1, embeddingRequests |-> 1]
    ELSE LET expanded == expandQueryTerms(query)
         IN  IF ~expanded.ok
             THEN [ok |-> FALSE, sorted |-> <<>>, divisor |-> 10, embeddingRequests |-> 0]
             ELSE [ok |-> TRUE,
                   sorted |-> SortByScore(KeywordScoredChunks(documents, expanded.terms)),
                   divisor |-> 10, embeddingRequests |-> 0]

\* What searchDocuments returns after the sort: the first topK chunks, or [] from
\* the catch when an exception was thrown.
SearchResult(ranked, topK) ==
    [result |-> IF ranked.ok THEN TopChunks(ranked.sorted, topK, ranked.divisor) ELSE <<>>,
     embeddingRequests |-> ranked.embeddingRequests]

\* searchDocuments(query, topK): the result and the number of embedding
\* requests issued.
searchDocuments(documents, query, topK, qOutcome) ==
    SearchResult(RankedChunks(documents, query, qOutcome), topK)

----------------------------------------------------------------------------
(* Context assembler *)

(* A string buildRAGContext builds is kept as the sequence of its parts, each
   with its length in characters (UTF-16 code units, as String.length counts):
   the fixed texts, the sections of the relevant chunks and the entries of the
   documents. The assembler reads only the names and the lengths of the
   contents it is given, so a document is passed as [id, nameLength,
   contentLength] and a relevant chunk as [id, docNameLength, contentLength]. *)

maxTotalLength == 300000

\* remainingSpace below which no further document is added.
MinRemainingSpace == 1000

\* The characters a truncated document is cut short of remainingSpace.
TruncationMargin == 100

\* The lengths of the fixed texts: systemPrompt; the header of the relevant
\* sections; the header of the full documents; the fixed characters of a
\* section ("[Section " .. "] From \"" .. "\":\n", 40 dashes, "\n", "\n\n");
\* those of a document entry ("\nFILE: " .. "\n", 40 dashes, "\n");
\* "\n[... truncated ...]\n"; the notice that further documents were left
\* out; the texts before and after the query in finalContext; the default
\* 'Document' name.
SystemPromptLength == 575
RelevantHeaderLength == 169
FullHeaderLength == 175
SectionFixedLength == 63
FileHeaderFixedLength == 49
TruncatedMarkLength == 21
NoticeLength == 53
BeforeContextLength == 2
QuestionPrefixLength == 78
QuestionSuffixLength == 171
DefaultNameLength == 8

\* The number of decimal digits of n >= 1.
RECURSIVE Digits(_)
Digits(n) == IF n < 10 THEN 1 ELSE 1 + Digits(n \div 10)

\* What the assembler reads of a stored document and of a returned chunk.
DocView(doc) == [id |-> doc.id, nameLength |-> Len(doc.name), contentLength |-> Len(doc.content)]
ChunkView(chunk) ==
    [id |-> chunk.id,
     docNameLength |-> Len(chunk.metadata.documentName),
     contentLength |-> Len(chunk.content)]

\* PART 1: one section per relevant chunk, numbered from 1; an empty
\* documentName is replaced by 'Document'.
RelevantSections(relevantChunks) ==
    Array([k \in 1..Len(relevantChunks) |->
        [kind |-> "section", index |-> k, of |-> relevantChunks[k].id,
         len |-> SectionFixedLength + Digits(k)
                 + (IF relevantChunks[k].docNameLength = 0 THEN DefaultNameLength
                    ELSE relevantChunks[k].docNameLength)
                 + relevantChunks[k].contentLength]])

\* The length of doc.content.substring(0, remainingSpace - 100), for a content
\* longer than remainingSpace >= 1000.
substringLengthWhole(remainingSpace) == remainingSpace

substringLength(remainingSpace) == remainingSpace - TruncationMargin

\* PART 2, the loop over allDocs from document i on: totalLength counts the
\* context before the loop and the contents added since; parts are the parts
\* added so far.
RECURSIVE AddDocuments(_, _, _, _)
AddDocuments(allDocs, i, totalLength, parts) ==
    IF i > Len(allDocs) THEN parts
    ELSE
        LET doc == allDocs[i]
            remainingSpace == maxTotalLength - totalLength
        IN  IF remainingSpace < MinRemainingSpace
            THEN Append(parts, [kind |-> "notice", len |-> NoticeLength])
            ELSE IF doc.contentLength <= remainingSpace
            THEN AddDocuments(allDocs, i + 1, totalLength + doc.contentLength,
                    Append(parts,
                        [kind |-> "file", of |-> doc.id, included |-> doc.contentLength,
                         truncated |-> FALSE,
                         len |-> FileHeaderFixedLength + doc.nameLength
                                 + doc.contentLength + 1]))
            ELSE AddDocuments(allDocs, i + 1, maxTotalLength,
                    Append(parts,
                        [kind |-> "file", of |-> doc.id,
                         included |-> substringLength(remainingSpace),
                         truncated |-> TRUE,
                         len |-> FileHeaderFixedLength + doc.nameLength
                                 + substringLength(remainingSpace)
                                 + TruncatedMarkLength]))

RECURSIVE TotalLength(_)
TotalLength(parts) ==
    IF Len(parts) = 0 THEN 0 ELSE parts[1].len + TotalLength(Tail(parts))

\* The variable context of buildRAGContext when it is done: the relevant
\* sections, if any, then the full documents.
ContextParts(allDocs, relevantChunks) ==
    LET part1 == IF Len(relevantChunks) > 0
                 THEN <<[kind |-> "relevantHeader", len |-> RelevantHeaderLength]>>
                      \o RelevantSections(relevantChunks)
                 ELSE <<>>
        headed == part1 \o <<[kind |-> "fullHeader", len |-> FullHeaderLength]>>
    IN  AddDocuments(allDocs, 1, TotalLength(headed), headed)

\* buildRAGContext, given what getAllDocuments and searchDocuments returned:
\* the query itself when no document is stored, else finalContext.
buildRAGContext(allDocs, relevantChunks, query) ==
    IF Len(allDocs) = 0
    THEN <<[kind |-> "question", query |-> query, before |-> 0, after |-> 0,
            len |-> Len(query)]>>
    ELSE <<[kind |-> "systemPrompt", len |-> SystemPromptLength + BeforeContextLength]>>
         \o ContextParts(allDocs, relevantChunks)
         \o <<[kind |-> "question", query |-> query,
               before |-> QuestionPrefixLength, after |-> QuestionSuffixLength,
               len |-> QuestionPrefixLength + Len(query) + QuestionSuffixLength]>>

----------------------------------------------------------------------------
(* Operations on the store *)

\* uploadDocument(file): parse, chunk, check the embedding model, embed each
\* chunk, save. server is the state of the Ollama server during the upload: an
\* embedding request can succeed only if it has the embedding model. Date.now() for the id is now; the upload ends at t2, the
\* document's uploadedAt. A parse failure is rethrown and nothing is stored.
UploadDocument ==
    /\ Cardinality(DOMAIN documentsStore) < MaxDocs
    /\ \E f \in Files :
        LET parsed == ParsedFiles[f]
            textChunks == FileChunks[f]
        IN  \E rnd \in Rnds : \E server \in ServerStates : \E t2 \in now..MaxTime :
            LET documentId == <<now, rnd>>
                check == checkEmbeddingModel(embeddingModelAvailable, server)
            IN  IF ~parsed.ok
                THEN /\ last' = [op |-> "upload", ok |-> FALSE, file |-> f.name]
                     /\ now' = t2
                     /\ UNCHANGED <<documentsStore, embeddingModelAvailable, uploaded>>
                ELSE /\ documentId \notin DOMAIN documentsStore
                     /\ \E requestOk \in [1..Len(textChunks) ->
                                            IF check.result /\ server = "hasModel"
                                            THEN BOOLEAN ELSE {FALSE}] :
                          LET outcomes == [k \in 1..Len(textChunks) |->
                                            generateEmbedding(EmbeddingModelOutput,
                                                              textChunks[k], requestOk[k])]
                              document == NewDocument(documentId, f, t2, parsed.content,
                                            UploadChunks(documentId, textChunks,
                                                         check.result, outcomes))
                          IN  /\ documentsStore' = SetItem(documentsStore, documentId, document)
                              /\ uploaded' = [k \in DOMAIN uploaded \cup {documentId} |->
                                                IF k = documentId
                                                THEN [file |-> f.name, uploadedAt |-> t2,
                                                      embedded |-> {k2 \in 1..Len(textChunks) :
                                                            check.result /\ requestOk[k2]}]
                                                ELSE uploaded[k]]
                              /\ last' = [op |-> "upload", ok |-> TRUE, file |-> f.name,
                                          id |-> documentId,
                                          server |-> server,
                                          useEmbeddings |-> check.result, outcomes |-> outcomes]
                     /\ embeddingModelAvailable' = check.cached
                     /\ now' = t2
    /\ UNCHANGED <<chunkVars, ctxVars, chatVars, libVars>>

\* deleteDocument(id), of a stored id or not.
DeleteDocument ==
    /\ \E id \in Ids :
        /\ documentsStore' = deleteDocument(documentsStore, id)
        /\ uploaded' = [k \in DOMAIN uploaded \ {id} |-> uploaded[k]]
        /\ last' = [op |-> "delete", id |-> id]
    /\ UNCHANGED <<embeddingModelAvailable, now, chunkVars, ctxVars, chatVars, libVars>>

\* clearAllDocuments()
ClearAllDocuments ==
    /\ documentsStore' = clearAllDocuments(documentsStore)
    /\ uploaded' = EmptyStore
    /\ last' = [op |-> "clear"]
    /\ UNCHANGED <<embeddingModelAvailable, now, chunkVars, ctxVars, chatVars, libVars>>

\* What the history keeps of a returned chunk: its id and its metadata (its
\* content and embedding are those of the stored chunk with that id).
ResultView(result) ==
    Array([k \in 1..Len(result) |-> [id |-> result[k].id, metadata |-> result[k].metadata]])

\* buildRAGContext(query, topK): getAllDocuments, searchDocuments unless no
\* document is stored, then the assembly of the string.
BuildRAGContext ==
    /\ LET allDocs == getAllDocuments(documentsStore)
           docViews == Array([i \in 1..Len(allDocs) |-> DocView(allDocs[i])])
       IN  \E query \in Queries : \E topK \in {MaxTopK} :
           \E requestOk \in (IF HasEmbeddings(allDocs) THEN BOOLEAN ELSE {FALSE}) :
            LET qOutcome == generateEmbedding(EmbeddingModelOutput, query, requestOk)
                relevantChunks == IF Len(allDocs) = 0 THEN <<>>
                                  ELSE searchDocuments(allDocs, query, topK, qOutcome).result
            IN  last' = [op |-> "build", query |-> query, topK |-> topK,
                         result |-> ResultView(relevantChunks),
                         context |-> buildRAGContext(docViews,
                                        Array([k \in 1..Len(relevantChunks) |->
                                                    ChunkView(relevantChunks[k])]),
                                        query)]
    /\ UNCHANGED <<documentsStore, embeddingModelAvailable, now, uploaded, chunkVars, ctxVars, chatVars, libVars>>

\* searchDocuments(query, topK): the ranking, then the first topK chunks.
SearchDocuments ==
    /\ LET documents == getAllDocuments(documentsStore)
       IN  \E query \in Queries :
           \E requestOk \in (IF HasEmbeddings(documents) THEN BOOLEAN ELSE {FALSE}) :
            LET qOutcome == generateEmbedding(EmbeddingModelOutput, query, requestOk)
                ranked == RankedChunks(documents, query, qOutcome)
            IN  \E topK \in 0..MaxTopK :
                LET found == SearchResult(ranked, topK)
                IN  last' = [op |-> "search", query |-> query, topK |-> topK,
                             qOutcome |-> qOutcome, result |-> ResultView(found.result),
                             embeddingRequests |-> found.embeddingRequests]
    /\ UNCHANGED <<documentsStore, embeddingModelAvailable, now, uploaded, chunkVars, ctxVars, chatVars, libVars>>

Init ==
    /\ documentsStore = EmptyStore
    /\ embeddingModelAvailable = "null"
    /\ now = 0
    /\ uploaded = EmptyStore
    /\ last = [op |-> "none"]
    /\ text = <<>>
    /\ chunkSize = 0
    /\ overlap = 0
    /\ chunks = <<>>
    /\ chunkPc = "off"
    /\ ctxDocs = <<>>
    /\ ctxChunks = <<>>
    /\ ctxQuery = <<>>
    /\ finalContext = <<>>
    /\ ctxPc = "off"
    /\ ChatOff
    /\ LibOff

Next ==
    \/ UploadDocument
    \/ DeleteDocument
    \/ ClearAllDocuments
    \/ SearchDocuments
    \/ BuildRAGContext

Spec == Init /\ [][Next]_vars

----------------------------------------------------------------------------
(* Properties of the store, the embedding client and the ranker (Spec) *)

\* The file with the given name.
FileNamed(name) == CHOOSE f \in Files : f.name = name

\* What last says of the outcome of an embedding request: TRUE if it succeeded.
Succeeded(outcome) == outcome # {}

\* C4: uploadDocument degrades gracefully: when parsing succeeds the document
\* is stored with exactly one stored chunk per text chunk, in chunk order with
\* ids <documentId>_chunk_<i>, whether or not the model is reported available
\* and whichever embedding requests fail; a stored chunk carries an embedding
\* if and only if the model was reported available and that chunk's own
\* embedding request succeeded.
C4_UploadDegradesGracefully ==
    last.op = "upload" =>
        LET f == FileNamed(last.file)
            parsed == ParsedFiles[f]
            textChunks == FileChunks[f]
        IN  parsed.ok =>
                /\ last.ok
                /\ last.id \in DOMAIN documentsStore
                /\ LET stored == documentsStore[last.id].chunks
                   IN  /\ Len(stored) = Len(textChunks)
                       /\ \A k \in 1..Len(stored) :
                            /\ stored[k].id = <<last.id, "_chunk_", k - 1>>
                            /\ stored[k].content = textChunks[k]
                            /\ (stored[k].embedding # {}) <=>
                                    (last.useEmbeddings /\ Succeeded(last.outcomes[k]))

\* An upload of a document of two chunks with the model reported available,
\* where the first embedding request failed and the second succeeded.
C4_Witness ==
    /\ last.op = "upload"
    /\ last.ok
    /\ last.useEmbeddings
    /\ Len(last.outcomes) = 2
    /\ ~Succeeded(last.outcomes[1])
    /\ Succeeded(last.outcomes[2])
    /\ Len(documentsStore[last.id].chunks) = 2

\* The stored chunks, each with its id, content and optional embedding.
StoredChunks ==
    UNION {Range(documentsStore[id].chunks) : id \in DOMAIN documentsStore}

\* The words of a query as the keyword ranking is described: lower-cased,
\* longer than 2 characters.
QueryWords(query) ==
    {w \in Range(SplitWhitespace(ToLowerCase(query))) : Len(w) > 2}

\* The terms of a query as the keyword ranking is described: its words and the
\* synonyms the table lists for each word, one level deep.
OneLevelTerms(query) ==
    QueryWords(query) \cup
    UNION {Range(synonyms[w]) : w \in QueryWords(query) \cap DOMAIN synonyms}

\* The occurrences of the terms of the query in the lower-cased content.
Occurrences(query, content) == ChunkKeywordScore(OneLevelTerms(query), content)

\* C5: when the embedding request for the query fails while some stored chunk
\* has an embedding, searchDocuments falls back to keyword ranking: if a
\* stored chunk matches the query (and topK > 0) the result is not empty and
\* holds only matching chunks.
C5_QueryEmbeddingFailureFallsBack ==
    (/\ last.op = "search"
     /\ \E c \in StoredChunks : c.embedding # {}
     /\ last.qOutcome = {}
     /\ last.topK > 0
     /\ \E c \in StoredChunks : Occurrences(last.query, c.content) > 0)
    => /\ Len(last.result) > 0
       /\ \A k \in 1..Len(last.result) :
            \E c \in StoredChunks :
                c.id = last.result[k].id /\ Occurrences(last.query, c.content) > 0

\* C6: when no stored chunk has an embedding, searchDocuments issues no
\* embedding request; the candidates are exactly the chunks with a positive
\* number of occurrences of the query's terms and one-level synonyms: every
\* returned chunk is one, with that number as its score, and the result is
\* empty only if there is none (or topK = 0).
C6_KeywordModeCandidates ==
    (/\ last.op = "search"
     /\ \A c \in StoredChunks : c.embedding = {})
    => /\ last.embeddingRequests = 0
       /\ \A k \in 1..Len(last.result) :
            \E c \in StoredChunks :
                /\ c.id = last.result[k].id
                /\ Occurrences(last.query, c.content) > 0
                /\ last.result[k].metadata.similarity
                        = Score(Occurrences(last.query, c.content), 10 * 10)
       /\ (last.topK > 0 /\ \E c \in StoredChunks : Occurrences(last.query, c.content) > 0)
            => Len(last.result) > 0

\* The candidates of the last search with their scores: in vector mode the
\* chunks that have an embedding, with their cosine similarity to the query's
\* embedding; in keyword mode the chunks with a positive occurrence count,
\* with that count. No candidates when the search failed.
Candidates ==
    IF \E c \in StoredChunks : c.embedding # {}
    THEN IF last.qOutcome = {} THEN {}
         ELSE {[id |-> c.id,
                score |-> cosineSimilarity(CHOOSE v \in last.qOutcome : TRUE,
                                           CHOOSE v \in c.embedding : TRUE)]
                : c \in {d \in StoredChunks : d.embedding # {}}}
    ELSE {[id |-> c.id, score |-> Score(Occurrences(last.query, c.content), 1)]
            : c \in {d \in StoredChunks : Occurrences(last.query, d.content) > 0}}

\* The score of a candidate.
CandidateScore(id) == (CHOOSE c \in Candidates : c.id = id).score

\* C7: searchDocuments(query, topK) returns at most topK chunks, all of them
\* candidates and no chunk twice, in non-increasing score order, and no
\* candidate left out of the result has a strictly higher score than a
\* returned chunk.
C7_TopKByScore ==
    last.op = "search" =>
        LET result == last.result
            returned == {result[k].id : k \in 1..Len(result)}
        IN  /\ Len(result) <= last.topK
            /\ Cardinality(returned) = Len(result)
            /\ returned \subseteq {c.id : c \in Candidates}
            /\ \A k \in 1..(Len(result) - 1) :
                ~ScoreLess(CandidateScore(result[k].id), CandidateScore(result[k + 1].id))
            /\ \A c \in Candidates : \A k \in 1..Len(result) :
                c.id \notin returned => ~ScoreLess(CandidateScore(result[k].id), c.score)

\* A search that returned two chunks of different scores and left out a
\* candidate of a lower score.
C7_Witness ==
    /\ last.op = "search"
    /\ Len(last.result) = 2
    /\ ScoreLess(CandidateScore(last.result[2].id), CandidateScore(last.result[1].id))
    /\ \E c \in Candidates :
        /\ c.id \notin {last.result[k].id : k \in 1..Len(last.result)}
        /\ ScoreLess(c.score, CandidateScore(last.result[2].id))

\* The document the history says was uploaded under id: the name of its file,
\* the content parseFile extracted, one chunk per text chunk, its uploadedAt.
IsAsUploaded(doc, id) ==
    LET f == FileNamed(uploaded[id].file)
    IN  /\ doc.id = id
        /\ doc.name = f.name
        /\ doc.type = f.type
        /\ doc.size = f.size
        /\ doc.uploadedAt = uploaded[id].uploadedAt
        /\ doc.content = ParsedFiles[f].content
        /\ Len(doc.chunks) = Len(FileChunks[f])
        /\ \A k \in 1..Len(doc.chunks) :
            /\ doc.chunks[k].content = FileChunks[f][k]
            /\ doc.chunks[k].embedding # {} <=> k \in uploaded[id].embedded

\* getAllDocuments returns exactly the documents uploaded and not deleted or
\* cleared since, each once, newest first; getDocument(id) returns that
\* document as it was uploaded, or null.
C10_StoreMatchesHistory ==
    LET docs == getAllDocuments(documentsStore)
    IN  /\ {docs[i].id : i \in 1..Len(docs)} = DOMAIN uploaded
        /\ Len(docs) = Cardinality(DOMAIN uploaded)
        /\ \A i \in 1..Len(docs) : IsAsUploaded(docs[i], docs[i].id)
        /\ \A i \in 1..(Len(docs) - 1) : docs[i].uploadedAt >= docs[i + 1].uploadedAt
        /\ \A id \in Ids :
            LET got == getDocument(documentsStore, id)
            IN  IF id \in DOMAIN uploaded
                THEN Cardinality(got) = 1 /\ \A doc \in got : IsAsUploaded(doc, id)
                ELSE got = {}

\* deleteDocument of an id that is not stored changes nothing.
C10_DeleteOfMissingId ==
    (last'.op = "delete" /\ last'.id \notin DOMAIN documentsStore)
        => documentsStore' = documentsStore

\* C10: after any sequence of uploadDocument, deleteDocument and
\* clearAllDocuments calls, getAllDocuments returns exactly the documents
\* uploaded and not deleted or cleared since, newest first; getDocument(id)
\* returns that document with the content and chunks it was uploaded with, or
\* null once it is deleted; deleteDocument of an id that is not stored changes
\* nothing.
C10_StoreAlgebra == [](C10_StoreMatchesHistory) /\ [][C10_DeleteOfMissingId]_vars

\* After a deleteDocument the id is not stored, and a document uploaded under
\* a later id still is.
C10_Witness ==
    /\ last.op = "delete"
    /\ last.id \notin DOMAIN documentsStore
    /\ Cardinality(DOMAIN documentsStore) = 1
    /\ \A id \in DOMAIN documentsStore : KeyBefore(last.id, id)

\* The kinds of the parts of a string buildRAGContext returned.
Kinds(context) == [p \in 1..Len(context) |-> context[p].kind]

\* The parts of a kind, in their order.
PartsOfKind(context, kind) == SelectSeq(context, LAMBDA part : part.kind = kind)

C11_UploadTracksAvailability ==
    (last.op = "upload" /\ last.ok) =>
        (last.useEmbeddings <=> (last.server = "hasModel"))

\* The stored documents none of whose chunks has an embedding, and the ones
\* with a chunk that has one.
WithoutEmbeddings ==
    {id \in DOMAIN documentsStore :
        \A k \in 1..Len(documentsStore[id].chunks) :
            documentsStore[id].chunks[k].embedding = {}}
WithEmbeddings == DOMAIN documentsStore \ WithoutEmbeddings

\* C26: when the store holds a document uploaded without embeddings and
\* another document with embeddings, the embedding request of the query
\* succeeds and the result has fewer than topK chunks, every chunk of the
\* document without embeddings that matches the query is in the result.
C26_ChunksStayRetrievable ==
    (/\ last.op = "search"
     /\ WithEmbeddings # {}
     /\ last.qOutcome # {}
     /\ Len(last.result) < last.topK)
    => \A id \in WithoutEmbeddings : \A k \in 1..Len(documentsStore[id].chunks) :
            LET c == documentsStore[id].chunks[k]
            IN  Occurrences(last.query, c.content) > 0
                    => c.id \in {last.result[j].id : j \in 1..Len(last.result)}

----------------------------------------------------------------------------
(* Specification of the context assembler: buildRAGContext applied to
   documents and chunks of bounded number, with contents of lengths around
   maxTotalLength *)

MaxCtxDocs == 3
MaxCtxChunks == 1
MaxNameLength == 255

NameLengths == {5, MaxNameLength}
ContentLengths == {0, 900, 150000, 200000, 299000}
ChunkLengths == {100, 800}

\* The documents getAllDocuments can return: document i has id i.
CtxDocLists ==
    UNION {[1..n -> [nameLength : NameLengths, contentLength : ContentLengths]]
            : n \in 0..MaxCtxDocs}

\* The chunks searchDocuments can return for these documents: chunks of
\* stored documents, no longer than the document's content.
CtxChunkLists(docs) ==
    UNION {[1..n -> {c \in [doc : 1..Len(docs), contentLength : ChunkLengths] :
                        c.contentLength <= docs[c.doc].contentLength}]
            : n \in 0..MaxCtxChunks}

InitCtx ==
    /\ \E docs \in CtxDocLists : \E found \in CtxChunkLists(docs) :
        /\ ctxDocs = [i \in 1..Len(docs) |->
                        [id |-> i, nameLength |-> docs[i].nameLength,
                         contentLength |-> docs[i].contentLength]]
        /\ ctxChunks = [k \in 1..Len(found) |->
                        [id |-> <<found[k].doc, k>>,
                         docNameLength |-> docs[found[k].doc].nameLength,
                         contentLength |-> found[k].contentLength]]
    /\ ctxQuery \in Queries
    /\ finalContext = <<>>
    /\ ctxPc = "call"
    /\ documentsStore = EmptyStore
    /\ embeddingModelAvailable = "null"
    /\ now = 0
    /\ uploaded = EmptyStore
    /\ last = [op |-> "none"]
    /\ text = <<>>
    /\ chunkSize = 0
    /\ overlap = 0
    /\ chunks = <<>>
    /\ chunkPc = "off"
    /\ ChatOff
    /\ LibOff

BuildRAGContextCall ==
    /\ ctxPc = "call"
    /\ finalContext' = buildRAGContext(ctxDocs, ctxChunks, ctxQuery)
    /\ ctxPc' = "done"
    /\ UNCHANGED <<ctxDocs, ctxChunks, ctxQuery, chunkVars, storeVars, chatVars, libVars>>

NextCtx == BuildRAGContextCall

SpecCtx == InitCtx /\ [][NextCtx]_vars

----------------------------------------------------------------------------
(* Properties of the context assembler (SpecCtx) *)

\* The length of the variable context of buildRAGContext: what the returned
\* string holds between the system preamble and the user question.
ContextLength(context) ==
    TotalLength(SelectSeq(context,
                          LAMBDA part : part.kind \notin {"systemPrompt", "question"}))

\* What one document adds to the context besides its content, at most, and the
\* notice that further documents were left out.
OneDocumentAllowance ==
    FileHeaderFixedLength + MaxNameLength + TruncatedMarkLength + NoticeLength

\* C8: the context assembled between the preamble and the user question never
\* exceeds maxTotalLength by more than a constant that does not depend on the
\* number of stored documents (here: what a single document can add besides
\* its content, and the notice).
C8_ContextWithinBudget ==
    ctxPc = "done" =>
        ContextLength(finalContext) <= maxTotalLength + OneDocumentAllowance

\* The document entries of the context built, in their order, and what the
\* context holds before them.
CtxFiles == PartsOfKind(finalContext, "file")
CtxHeading ==
    SelectSeq(finalContext,
              LAMBDA part : part.kind \in {"relevantHeader", "section", "fullHeader"})

\* The characters counted when the k-th document is considered: the context
\* before the documents and the contents of the documents before it.
RECURSIVE IncludedBefore(_)
IncludedBefore(k) ==
    IF k <= 1 THEN 0 ELSE CtxFiles[k - 1].included + IncludedBefore(k - 1)
Budget(k) == maxTotalLength - (TotalLength(CtxHeading) + IncludedBefore(k))

\* C21: buildRAGContext takes the documents in the order of allDocs (newest
\* first); the content of a document it takes is included in full if and
\* only if its length is at most the remaining budget, else it is cut to the
\* remaining budget minus 100 characters, a non-negative length, and marked
\* as truncated; a document is taken only while 1000 characters or more
\* remain and no document before it was truncated, and nothing of the
\* documents after that is included.
C21_BudgetAccounting ==
    (ctxPc = "done" /\ Len(ctxDocs) > 0) =>
        /\ Len(CtxFiles) <= Len(ctxDocs)
        /\ \A k \in 1..Len(CtxFiles) :
            /\ CtxFiles[k].of = ctxDocs[k].id
            /\ Budget(k) >= 1000
            /\ ~CtxFiles[k].truncated <=> ctxDocs[k].contentLength <= Budget(k)
            /\ ~CtxFiles[k].truncated => CtxFiles[k].included = ctxDocs[k].contentLength
            /\ CtxFiles[k].truncated =>
                /\ CtxFiles[k].included = Budget(k) - 100
                /\ CtxFiles[k].included >= 0
                /\ k = Len(CtxFiles)
        /\ Len(CtxFiles) < Len(ctxDocs) =>
            \/ Len(CtxFiles) > 0 /\ CtxFiles[Len(CtxFiles)].truncated
            \/ Budget(Len(CtxFiles) + 1) < 1000

\* A context of three documents: the first is included in full, the second is
\* truncated, the third is left out.
C21_Witness ==
    /\ ctxPc = "done"
    /\ Len(ctxDocs) = 3
    /\ Len(CtxFiles) = 2
    /\ ~CtxFiles[1].truncated /\ CtxFiles[1].included > 0
    /\ CtxFiles[2].truncated

----------------------------------------------------------------------------
(* Chat orchestration: the Chat component (src/unnamed/part_001) and the
   ChatInput component (src/unnamed/part_000).

   A message is [role, content], content a string. A session is
   [id, title, messages, model]; its createdAt and updatedAt are not
   modelled. The sessions state and the stored history are functions from
   the session id to the session: the session ids are unique and the code
   reads the lists by id only (sessions.find), up to the session loaded on
   mount. *)

MaxSessions == 1
MaxRagSessions == 2
MaxTasks == 1
MaxPieces == 2
MaxRequests == 3
MaxSwitchRequests == 1
MaxSwitchSessions == 3
MaxStoredDocs == 2

\* services/chatHistory, createNewSession(model): a session with a fresh id,
\* the title of a chat without a title and no messages.
DefaultTitle == <<"N", "e", "w", " ", "C", "h", "a", "t">>
createNewSession(id, model) ==
    [id |-> id, title |-> DefaultTitle, messages |-> <<>>, model |-> model]

\* services/chatHistory, saveChatSession(session): stores the session under its id.
saveChatSession(history, session) ==
    [k \in DOMAIN history \cup {session.id} |->
        IF k = session.id THEN session ELSE history[k]]

\* services/chatHistory, deleteChatSession(sessionId)
deleteChatSession(history, sessionId) ==
    [k \in DOMAIN history \ {sessionId} |-> history[k]]

\* [...sessions, newSession]
WithSession(list, session) ==
    [k \in DOMAIN list \cup {session.id} |->
        IF k = session.id THEN session ELSE list[k]]

\* The id createNewSession gives the next session: ragSetting has an entry for
\* every session created so far.
FreshId == Cardinality(DOMAIN ragSetting) + 1

\* The session in currentSession (which is not null).
Current(cur) == CHOOSE s \in cur : TRUE

UserMessage(content) == [role |-> "user", content |-> content]
AssistantMessage(content) == [role |-> "assistant", content |-> content]

\* The number of characters of the first message that make a title.
TitleLength == 30

\* What buildRAGContext(query, 3) returns with docs documents in the store:
\* the query itself with none, else the context, of which the model keeps a
\* mark for everything before the query (system prompt, sections, documents)
\* and a mark for the instruction after it.
ragContext(query, docs) ==
    IF docs = 0 THEN query ELSE <<"[">> \o query \o <<"]">>

\* The state updater of the stream callback: the response so far replaces the
\* last message if it is an assistant message, else it is appended.
UpdateLastAssistant(prev, currentResponse) ==
    IF Len(prev) > 0 /\ prev[Len(prev)].role = "assistant"
    THEN SliceTo(prev, -1) \o <<[prev[Len(prev)] EXCEPT !.content = currentResponse]>>
    ELSE prev \o <<AssistantMessage(currentResponse)>>

\* useEffect(..., [messages]): after a render that changed messages, the
\* current session, if any, is saved with the messages; the result is the
\* stored history. (Loading the session that is loaded already sets messages
\* to the array it holds and runs no effect; the model saves the same values
\* again.)
MessagesEffect(history, cur, msgs) ==
    IF cur = {} THEN history
    ELSE saveChatSession(history, [Current(cur) EXCEPT !.messages = msgs])

\* The sessions state after that render: the effect, when it saves, sets it to
\* getChatHistory(), after whatever the handler set.
SessionsAfterEffect(history, cur, msgs, set) ==
    IF cur = {} THEN set ELSE MessagesEffect(history, cur, msgs)

\* The strings the user types or picks (a quick prompt), trimmed by ChatInput;
\* one is longer than a title.
ChatInputs ==
    {<<"h", "i">>, <<"S", "u", "m", "m", "a", "r", "i", "z", "e", " ">> \o Filler(TitleLength - 9)}

\* The text an edit puts in a message.
EditedContents == {<<"e", "d">>}

\* The pieces the generation API streams, in order.
PieceChars == <<"a", "b", "c", "d">>
Piece(n) == <<PieceChars[n]>>

\* A slot of tasks that holds no suspended call.
Idle == [kind |-> "idle"]

FreeSlots == {i \in DOMAIN tasks : tasks[i] = Idle}

\* The suspended calls of handleSubmit that will create a session when they
\* complete, and the ones that have not called generateChatResponse yet.
WillCreate == {i \in DOMAIN tasks : tasks[i].kind = "submit" /\ tasks[i].currentSession = {}}
WillRequest == {i \in DOMAIN tasks : tasks[i].kind = "submit" /\ tasks[i].pc = "rag"}

\* History: the RAG setting of the session id becomes v.
WithSetting(settings, id, v) ==
    [k \in DOMAIN settings \cup {id} |-> IF k = id THEN v ELSE settings[k]]

\* The number of calls of generateChatResponse so far.
RequestCount == IF requests = <<>> THEN 0 ELSE requests[1].nr

\* The variables of the other specifications.
pipelineVars == <<chunkVars, storeVars, ctxVars, libVars>>

\* The sessions the specification creates at most.
SessionBound ==
    IF chatPc = "switch" THEN MaxSwitchSessions
    ELSE IF chatPc = "rag" THEN MaxRagSessions ELSE MaxSessions

\* The requests the specification makes at most.
RequestBound == IF chatPc = "switch" THEN MaxSwitchRequests ELSE MaxRequests

\* Chat is mounted in a browser without stored sessions; the store may
\* hold a document of an earlier page session.
Mounted ==
    /\ messages = <<>>
    /\ sessions = <<>>
    /\ currentSession = {}
    /\ selectedModel = ""
    /\ ragEnabled = FALSE
    /\ isGenerating = FALSE
    /\ chatHistory = <<>>
    /\ storedDocs \in 0..1
    /\ hasDocuments = (storedDocs > 0)
    /\ attachedDocs = storedDocs
    /\ tasks = [i \in 1..MaxTasks |-> Idle]
    /\ fileSelect = {}
    /\ requests = <<>>
    /\ ragSetting = <<>>
    /\ deletedSessions = {}
    /\ documentsStore = EmptyStore
    /\ embeddingModelAvailable = "null"
    /\ now = 0
    /\ uploaded = EmptyStore
    /\ last = [op |-> "none"]
    /\ text = <<>>
    /\ chunkSize = 0
    /\ overlap = 0
    /\ chunks = <<>>
    /\ chunkPc = "off"
    /\ ctxDocs = <<>>
    /\ ctxChunks = <<>>
    /\ ctxQuery = <<>>
    /\ finalContext = <<>>
    /\ ctxPc = "off"
    /\ LibOff

\* fetchModels: the first installed model becomes the selected model.
InstalledModel == "llama3.2:1b"
FetchModels ==
    /\ selectedModel = ""
    /\ selectedModel' = InstalledModel
    /\ UNCHANGED <<messages, sessions, currentSession, ragEnabled, hasDocuments, isGenerating,
                   chatHistory, storedDocs, attachedDocs, tasks, fileSelect, requests,
                   ragSetting, chatPc, deletedSessions, pipelineVars>>

\* handleNewChat, followed by the effect of the changed messages.
HandleNewChat ==
    /\ selectedModel # ""
    /\ FreshId + Cardinality(WillCreate) <= SessionBound
    /\ LET newSession == createNewSession(FreshId, selectedModel)
       IN  /\ currentSession' = {newSession}
           /\ messages' = <<>>
           /\ chatHistory' = MessagesEffect(chatHistory, {newSession}, <<>>)
           /\ sessions' = SessionsAfterEffect(chatHistory, {newSession}, <<>>,
                                              WithSession(sessions, newSession))
           /\ ragSetting' = WithSetting(ragSetting, FreshId, FALSE)
    /\ UNCHANGED <<selectedModel, ragEnabled, hasDocuments, isGenerating, storedDocs,
                   attachedDocs, tasks, fileSelect, requests, chatPc, deletedSessions, pipelineVars>>

\* loadSession(sessionId), followed by the effect of the changed messages.
LoadSession ==
    /\ \E sessionId \in DOMAIN sessions :
        LET session == sessions[sessionId]
        IN  /\ currentSession' = {session}
            /\ messages' = session.messages
            /\ selectedModel' = session.model
            /\ chatHistory' = MessagesEffect(chatHistory, {session}, session.messages)
            /\ sessions' = SessionsAfterEffect(chatHistory, {session}, session.messages, sessions)
    /\ UNCHANGED <<ragEnabled, hasDocuments, isGenerating, storedDocs, attachedDocs, tasks,
                   fileSelect, requests, ragSetting, chatPc, deletedSessions, pipelineVars>>

\* handleDeleteSession(sessionId); when it empties messages, the effect finds
\* no current session.
HandleDeleteSession ==
    /\ \E sessionId \in DOMAIN sessions :
        /\ chatHistory' = deleteChatSession(chatHistory, sessionId)
        /\ sessions' = chatHistory'
        /\ IF currentSession # {} /\ Current(currentSession).id = sessionId
           THEN currentSession' = {} /\ messages' = <<>>
           ELSE UNCHANGED <<currentSession, messages>>
        /\ deletedSessions' = deletedSessions \cup {sessionId}
    /\ UNCHANGED <<selectedModel, ragEnabled, hasDocuments, isGenerating, storedDocs,
                   attachedDocs, tasks, fileSelect, requests, ragSetting, chatPc,
                   pipelineVars>>

\* onToggleRAG, from the buttons ChatInput renders while it has documents.
ToggleRAG ==
    /\ attachedDocs > 0
    /\ ragEnabled' = ~ragEnabled
    /\ ragSetting' = IF currentSession = {} THEN ragSetting
                     ELSE WithSetting(ragSetting, Current(currentSession).id, ~ragEnabled)
    /\ UNCHANGED <<messages, sessions, currentSession, selectedModel, hasDocuments,
                   isGenerating, chatHistory, storedDocs, attachedDocs, tasks, fileSelect,
                   requests, chatPc, deletedSessions, pipelineVars>>

\* finalInput of handleSubmit once buildRAGContext returned context (built) or
\* threw: the context if there is one, else the input.
finalInputOfContext(input, built, context) == context

finalInput(input, built, context) ==
    IF built /\ context # <<>> THEN context ELSE input

\* userMessage of handleSubmit, the message put in the messages state: it
\* holds the input, whatever finalInput is.
userMessageOfFinalInput(input, final) == UserMessage(final)

userMessage(input, final) == UserMessage(input)

\* handleSubmit from "const userMessage" to the call of generateChatResponse,
\* for the call in slot i that captured task and sends content as finalInput; then the
\* effect of the changed messages. how tells what became of the context.
SendSubmit(i, task, content, how) ==
    /\ messages' = messages \o <<userMessage(task.input, content)>>
    /\ isGenerating' = TRUE
    /\ requests' = <<[nr |-> RequestCount + 1, outcome |-> "pending", by |-> "submit", model |-> task.model, input |-> task.input, how |-> how,
                      index |-> Len(task.messages),
                      messages |-> task.messages \o <<UserMessage(content)>>,
                      ragEnabled |-> ragEnabled, storedDocs |-> storedDocs]>>
    /\ tasks' = [tasks EXCEPT ![i] = [task EXCEPT !.pc = "stream", !.nr = RequestCount + 1]]
    /\ chatHistory' = MessagesEffect(chatHistory, currentSession, messages')
    /\ sessions' = SessionsAfterEffect(chatHistory, currentSession, messages', sessions)
    /\ UNCHANGED <<currentSession, selectedModel, ragEnabled, hasDocuments, storedDocs,
                   attachedDocs, fileSelect, ragSetting, chatPc, deletedSessions, pipelineVars>>

\* handleSubmit(input), called by ChatInput (enabled while nothing is
\* generating) or by a quick prompt (rendered while there is no message), up
\* to its first await: buildRAGContext when RAG is enabled and a document is
\* known, else generateChatResponse.
HandleSubmit ==
    /\ ~isGenerating \/ Len(messages) = 0
    /\ FreeSlots # {}
    /\ RequestCount + Cardinality(WillRequest) < RequestBound
    /\ currentSession = {} => FreshId + Cardinality(WillCreate) <= SessionBound
    /\ \E input \in ChatInputs :
        /\ ~(Trim(input) = <<>> \/ selectedModel = "")
        /\ LET i == Min(FreeSlots)
               task == [kind |-> "submit", pc |-> "rag", nr |-> 0, input |-> input,
                        messages |-> messages, sessions |-> sessions,
                        currentSession |-> currentSession, model |-> selectedModel,
                        currentResponse |-> <<>>, delivered |-> 0]
           IN  IF ragEnabled /\ hasDocuments
               THEN /\ tasks' = [tasks EXCEPT ![i] = task]
                    /\ UNCHANGED <<messages, sessions, currentSession, selectedModel,
                                   ragEnabled, hasDocuments, isGenerating, chatHistory,
                                   storedDocs, attachedDocs, fileSelect, requests,
                                   ragSetting, chatPc, deletedSessions, pipelineVars>>
               ELSE SendSubmit(i, task, input, "off")

\* buildRAGContext returns or throws, and handleSubmit goes on.
ContextSettled ==
    \E i \in DOMAIN tasks : \E built \in BOOLEAN :
        /\ tasks[i].kind = "submit" /\ tasks[i].pc = "rag"
        /\ SendSubmit(i, tasks[i],
                      finalInput(tasks[i].input, built, ragContext(tasks[i].input, storedDocs)),
                      IF built THEN "built" ELSE "failed")

\* The stream callback of the call in slot i delivers the next piece; then the
\* effect of the changed messages.
StreamPiece ==
    /\ \E i \in DOMAIN tasks :
        /\ tasks[i].kind \in {"submit", "edit"} /\ tasks[i].pc = "stream"
        /\ tasks[i].delivered < MaxPieces
        /\ LET currentResponse == tasks[i].currentResponse \o Piece(tasks[i].delivered + 1)
           IN  /\ tasks' = [tasks EXCEPT ![i].currentResponse = currentResponse,
                                         ![i].delivered = @ + 1]
               /\ messages' = UpdateLastAssistant(messages, currentResponse)
        /\ chatHistory' = MessagesEffect(chatHistory, currentSession, messages')
        /\ sessions' = SessionsAfterEffect(chatHistory, currentSession, messages', sessions)
    /\ UNCHANGED <<currentSession, selectedModel, ragEnabled, hasDocuments, isGenerating,
                   storedDocs, attachedDocs, fileSelect, requests, ragSetting, chatPc, deletedSessions,
                   pipelineVars>>

\* handleSubmit with the title of the whole first message.
SubmittedSessionLongTitle(id, task) ==
    [createNewSession(id, task.model) EXCEPT
        !.title = task.input,
        !.messages = task.messages \o <<UserMessage(task.input),
                                         AssistantMessage(task.currentResponse)>>]

\* The session handleSubmit creates when it captured no current session.
SubmittedSession(id, task) ==
    [createNewSession(id, task.model) EXCEPT
        !.title = SliceTo(task.input, TitleLength),
        !.messages = task.messages \o <<UserMessage(task.input),
                                         AssistantMessage(task.currentResponse)>>]

\* generateChatResponse resolves (completed) or throws for the call in slot i,
\* and handleSubmit or handleEditMessage runs to its end.
StreamEnd ==
    /\ \E i \in DOMAIN tasks : \E completed \in BOOLEAN :
        /\ tasks[i].kind \in {"submit", "edit"} /\ tasks[i].pc = "stream"
        /\ IF completed /\ tasks[i].kind = "submit" /\ tasks[i].currentSession = {}
           THEN LET newSession == SubmittedSession(FreshId, tasks[i])
                IN  /\ currentSession' = {newSession}
                    /\ sessions' = WithSession(tasks[i].sessions, newSession)
                    /\ ragSetting' = WithSetting(ragSetting, FreshId, ragEnabled)
           ELSE UNCHANGED <<currentSession, sessions, ragSetting>>
        /\ tasks' = [tasks EXCEPT ![i] = Idle]
        /\ requests' = IF requests[1].nr = tasks[i].nr
                       THEN <<[requests[1] EXCEPT
                                 !.outcome = IF completed THEN "completed" ELSE "failed"]>>
                       ELSE requests
    /\ isGenerating' = FALSE
    /\ UNCHANGED <<messages, selectedModel, ragEnabled, hasDocuments, chatHistory, storedDocs,
                   attachedDocs, fileSelect, chatPc, deletedSessions, pipelineVars>>

\* updatedMessages.slice(0, index + 1) of handleEditMessage
messagesUntilEditExclusive(msgs, index, newContent) ==
    SliceTo([msgs EXCEPT ![index + 1].content = newContent], index)

messagesUntilEdit(msgs, index, newContent) ==
    SliceTo([msgs EXCEPT ![index + 1].content = newContent], index + 1)

\* The indices the edit buttons pass: the user's messages; and an index below 0.
EditIndices == {k \in 0..(Len(messages) - 1) : messages[k + 1].role = "user"} \cup {-1}

\* handleEditMessage(index, newContent) up to its await, then the effect of
\* the changed messages.
HandleEditMessage ==
    /\ FreeSlots # {}
    /\ RequestCount + Cardinality(WillRequest) < RequestBound
    /\ \E index \in EditIndices : \E newContent \in EditedContents :
        IF index < 0 \/ currentSession = {}
        THEN UNCHANGED vars
        ELSE LET until == messagesUntilEdit(messages, index, newContent)
                 updatedSession == [Current(currentSession) EXCEPT !.messages = until]
                 saved == saveChatSession(chatHistory, updatedSession)
             IN  /\ messages' = until
                 /\ currentSession' = {updatedSession}
                 /\ chatHistory' = MessagesEffect(saved, {updatedSession}, until)
                 /\ sessions' = SessionsAfterEffect(saved, {updatedSession}, until, saved)
                 /\ isGenerating' = TRUE
                 /\ requests' = <<[nr |-> RequestCount + 1, outcome |-> "pending",
                                    by |-> "edit", model |-> selectedModel, input |-> newContent,
                                   how |-> "none", index |-> index, messages |-> until,
                                   ragEnabled |-> ragEnabled, storedDocs |-> storedDocs]>>
                 /\ tasks' = [tasks EXCEPT ![Min(FreeSlots)] =
                                [kind |-> "edit", pc |-> "stream", nr |-> RequestCount + 1,
                                 input |-> newContent,
                                 messages |-> messages, sessions |-> sessions,
                                 currentSession |-> currentSession, model |-> selectedModel,
                                 currentResponse |-> <<>>, delivered |-> 0]]
                 /\ UNCHANGED <<selectedModel, ragEnabled, hasDocuments, storedDocs,
                                attachedDocs, fileSelect, ragSetting, chatPc, deletedSessions, pipelineVars>>

\* ChatInput, handleFileSelect up to its await: a file of at most 10 MB starts
\* uploadDocument; the call keeps the ragEnabled its props had, which is also
\* the one its onToggleRAG was made with.
HandleFileSelect ==
    /\ fileSelect = {}
    /\ \E tooLarge \in BOOLEAN :
        fileSelect' = IF tooLarge THEN {} ELSE {[ragEnabled |-> ragEnabled]}
    /\ UNCHANGED <<messages, sessions, currentSession, selectedModel, ragEnabled, hasDocuments,
                   isGenerating, chatHistory, storedDocs, attachedDocs, tasks, requests,
                   ragSetting, chatPc, deletedSessions, pipelineVars>>

\* uploadDocument resolves (stored) or throws, and handleFileSelect runs to its
\* end: loadDocuments, checkDocuments and, when RAG was off, onToggleRAG.
UploadSettled ==
    /\ fileSelect # {}
    /\ \E stored \in BOOLEAN :
        IF stored
        THEN /\ storedDocs < MaxStoredDocs
             /\ storedDocs' = storedDocs + 1
             /\ attachedDocs' = storedDocs'
             /\ hasDocuments' = (storedDocs' > 0)
             /\ LET props == CHOOSE p \in fileSelect : TRUE
                IN  IF ~props.ragEnabled
                    THEN /\ ragEnabled' = ~props.ragEnabled
                         /\ ragSetting' =
                              IF currentSession = {} THEN ragSetting
                              ELSE WithSetting(ragSetting, Current(currentSession).id,
                                               ~props.ragEnabled)
                    ELSE UNCHANGED <<ragEnabled, ragSetting>>
        ELSE UNCHANGED <<storedDocs, attachedDocs, hasDocuments, ragEnabled, ragSetting>>
    /\ fileSelect' = {}
    /\ UNCHANGED <<messages, sessions, currentSession, selectedModel, isGenerating,
                   chatHistory, tasks, requests, chatPc, deletedSessions, pipelineVars>>

\* ChatInput, loadDocuments: every two seconds and on focus.
LoadDocuments ==
    /\ attachedDocs # storedDocs
    /\ attachedDocs' = storedDocs
    /\ UNCHANGED <<messages, sessions, currentSession, selectedModel, ragEnabled, hasDocuments,
                   isGenerating, chatHistory, storedDocs, tasks, fileSelect, requests,
                   ragSetting, chatPc, deletedSessions, pipelineVars>>

\* The document manager is opened, a document is uploaded or deleted in it,
\* and it is closed: checkDocuments.
ManageDocuments ==
    /\ \E n \in {storedDocs - 1, storedDocs + 1} \cap 0..MaxStoredDocs :
        /\ storedDocs' = n
        /\ hasDocuments' = (n > 0)
    /\ UNCHANGED <<messages, sessions, currentSession, selectedModel, ragEnabled,
                   isGenerating, chatHistory, attachedDocs, tasks, fileSelect, requests,
                   ragSetting, chatPc, deletedSessions, pipelineVars>>

\* The chat over the documents of earlier page sessions: sessions, messages,
\* generations and the RAG toggle.
NextChat ==
    \/ FetchModels
    \/ HandleNewChat
    \/ LoadSession
    \/ HandleDeleteSession
    \/ ToggleRAG
    \/ HandleSubmit
    \/ ContextSettled
    \/ StreamPiece
    \/ StreamEnd
    \/ HandleEditMessage

InitChat == Mounted /\ chatPc = "chat"

SpecChat == InitChat /\ [][NextChat]_vars

\* Generations over several sessions, with RAG off: the sidebar is used
\* while a response streams.
NextSwitch ==
    \/ FetchModels
    \/ HandleNewChat
    \/ LoadSession
    \/ HandleDeleteSession
    \/ HandleSubmit
    \/ StreamPiece
    \/ StreamEnd

InitSwitch == Mounted /\ chatPc = "switch"

SpecSwitch == InitSwitch /\ [][NextSwitch]_vars

\* The RAG setting: sessions without messages, the RAG toggle, the uploads of
\* ChatInput and the document manager.
NextRag ==
    \/ FetchModels
    \/ HandleNewChat
    \/ LoadSession
    \/ HandleDeleteSession
    \/ ToggleRAG
    \/ HandleFileSelect
    \/ UploadSettled
    \/ LoadDocuments
    \/ ManageDocuments

InitRag == Mounted /\ chatPc = "rag"

SpecRag == InitRag /\ [][NextRag]_vars

----------------------------------------------------------------------------
(* Properties of the chat (SpecChat) *)

\* The pieces 1..n the generation API streamed, concatenated.
Streamed(n) == Join([k \in 1..n |-> Piece(k)], <<>>)

\* The calls of handleSubmit that are streaming.
Streaming == {i \in DOMAIN tasks : tasks[i].kind = "submit" /\ tasks[i].pc = "stream"}

\* C12: during a generation handleSubmit started, once the callback delivered
\* the pieces c1..cn (n >= 1), the message list is the messages before the
\* submit, then the user's message, then exactly one assistant message whose
\* content is c1 + ... + cn.
C12_StreamAccumulates ==
    \A i \in Streaming :
        tasks[i].delivered >= 1 =>
            messages = tasks[i].messages
                       \o <<UserMessage(tasks[i].input),
                            AssistantMessage(Streamed(tasks[i].delivered))>>

\* The step is a call of handleEditMessage that went past its guard: it
\* recorded a request.
EditRequested ==
    /\ RequestCount' = RequestCount + 1
    /\ requests'[1].by = "edit"

\* C13: handleEditMessage(index, newContent) requests a response only with a
\* current session and an index of at least 0; it then replaces the content
\* of the message at index, leaves the messages before it as they are,
\* discards every message after it, stores the session with exactly that
\* list and requests the response from exactly that list.
C13_EditStep ==
    EditRequested =>
        LET request == requests'[1]
            index == request.index
        IN  /\ index >= 0
            /\ currentSession # {}
            /\ Len(messages') = index + 1
            /\ \A k \in 1..index : messages'[k] = messages[k]
            /\ messages'[index + 1] = [role |-> messages[index + 1].role,
                                       content |-> request.input]
            /\ chatHistory'[Current(currentSession).id].messages = messages'
            /\ chatHistory'[Current(currentSession).id].id = Current(currentSession).id
            /\ request.messages = messages'

C13_EditAndRegenerate == [][C13_EditStep]_vars

\* An edit of a message that had messages after it has just been made.
C13_Witness ==
    /\ requests # <<>>
    /\ requests[1].by = "edit"
    /\ \E i \in DOMAIN tasks :
        /\ tasks[i].kind = "edit"
        /\ tasks[i].delivered = 0
        /\ Len(tasks[i].messages) > Len(messages)
        /\ requests[1].index > 0

\* The step ends the generation of the call of handleSubmit in slot i with
\* the response complete.
SubmitCompleted(i) ==
    /\ tasks[i].kind = "submit" /\ tasks[i].pc = "stream"
    /\ tasks'[i] = Idle
    /\ requests'[1].nr = tasks[i].nr
    /\ requests'[1].outcome = "completed"

\* C17: when a message was submitted with no current session, then at the end
\* of the complete response a new session is the current session and is in
\* the session list; its title is the first 30 characters of the message; its
\* messages are the messages before the submit, the user's message and one
\* assistant message with the whole response.
C17_CompletedStep ==
    \A i \in DOMAIN tasks :
        (SubmitCompleted(i) /\ tasks[i].currentSession = {}) =>
            \E session \in currentSession' :
                /\ session.id \notin DOMAIN ragSetting
                /\ session.id \in DOMAIN sessions'
                /\ sessions'[session.id] = session
                /\ session.title = SubSeq(tasks[i].input, 1, Min({30, Len(tasks[i].input)}))
                /\ session.messages
                     = tasks[i].messages
                       \o <<UserMessage(tasks[i].input),
                            AssistantMessage(Streamed(tasks[i].delivered))>>

C17_SubmitCreatesSession == [][C17_CompletedStep]_vars

\* A submit of the long message without a current session has completed with
\* a response of two pieces: the session it created is current.
C17_Witness ==
    /\ requests # <<>>
    /\ requests[1].by = "submit"
    /\ requests[1].outcome = "completed"
    /\ Len(requests[1].input) > 30
    /\ \E session \in currentSession :
        /\ Len(session.title) = 30
        /\ Len(session.messages) >= 2
        /\ session.messages[Len(session.messages)] = AssistantMessage(Streamed(2))

\* The step is a call of generateChatResponse by handleSubmit.
SubmitRequested ==
    /\ RequestCount' = RequestCount + 1
    /\ requests'[1].by = "submit"

\* The calls of handleSubmit that wait for buildRAGContext.
AwaitingContext == {i \in DOMAIN tasks : tasks[i].kind = "submit" /\ tasks[i].pc = "rag"}

\* C19: handleSubmit waits for a context only when RAG is enabled and a
\* document is known; when buildRAGContext is over, failed or not, the request
\* is made; and when it failed, or was not called, the user's message is
\* appended to the messages and the content sent for the latest message is
\* the user's input.
C19_Step ==
    /\ AwaitingContext' \ AwaitingContext # {} => ragEnabled /\ hasDocuments
    /\ AwaitingContext \ AwaitingContext' # {} => SubmitRequested
    /\ SubmitRequested =>
        LET request == requests'[1]
            notCalled == AwaitingContext \ AwaitingContext' = {}
        IN  /\ notCalled => ~(ragEnabled /\ hasDocuments)
            /\ (notCalled \/ request.how = "failed") =>
                /\ messages' = messages \o <<UserMessage(request.input)>>
                /\ request.messages[Len(request.messages)] = UserMessage(request.input)

C19_ProceedsWithoutContext == [][C19_Step]_vars

\* With RAG enabled and a document stored, buildRAGContext has just failed
\* and the request has been made.
C19_Witness ==
    /\ requests # <<>>
    /\ requests[1].how = "failed"
    /\ requests[1].outcome = "pending"
    /\ ragEnabled /\ hasDocuments /\ storedDocs > 0
    /\ messages # <<>>
    /\ messages[Len(messages)] = UserMessage(requests[1].input)

\* C20: a request made to generateChatResponse while RAG is enabled and a
\* document is stored, by handleSubmit or by handleEditMessage, has as the
\* content of its latest message the document context built for the user's
\* text (a request made after buildRAGContext threw is left aside).
C20_RequestsCarryContext ==
    (/\ requests # <<>>
     /\ requests[1].how # "failed"
     /\ requests[1].ragEnabled
     /\ requests[1].storedDocs > 0) =>
        LET request == requests[1]
            latest == request.messages[Len(request.messages)]
        IN  latest.content = ragContext(request.input, request.storedDocs)

\* The prompts buildRAGContext can return over stored documents.
AugmentedPrompts ==
    {ragContext(input, docs) : input \in ChatInputs \cup EditedContents,
                               docs \in 1..MaxStoredDocs}

\* No message of the list is a user message holding an augmented prompt, and
\* every user message holds a text the user typed.
HoldsOriginalInput(msgs) ==
    \A k \in 1..Len(msgs) :
        msgs[k].role = "user" =>
            /\ msgs[k].content \notin AugmentedPrompts
            /\ msgs[k].content \in ChatInputs \cup EditedContents

\* C22: the messages shown, the messages of the current session, of the
\* sessions of the sidebar and of the stored sessions, and the history sent
\* with a request before its latest message hold the user's inputs and never
\* the prompt buildRAGContext returned.
C22_OriginalInputKept ==
    /\ HoldsOriginalInput(messages)
    /\ \A s \in currentSession : HoldsOriginalInput(s.messages)
    /\ \A id \in DOMAIN sessions : HoldsOriginalInput(sessions[id].messages)
    /\ \A id \in DOMAIN chatHistory : HoldsOriginalInput(chatHistory[id].messages)
    /\ requests # <<>> =>
        HoldsOriginalInput(SubSeq(requests[1].messages, 1, Len(requests[1].messages) - 1))

\* A second request follows one that carried an augmented prompt, and the
\* session is stored with the messages of the first.
C22_Witness ==
    /\ requests # <<>>
    /\ requests[1].nr >= 2
    /\ Len(requests[1].messages) >= 3
    /\ requests[1].how = "built"
    /\ requests[1].messages[Len(requests[1].messages)].content \in AugmentedPrompts
    /\ \E id \in DOMAIN chatHistory : Len(chatHistory[id].messages) >= 3

\* The calls of handleSubmit and handleEditMessage that were accepted and
\* have not ended, and those of them whose request is in flight.
Accepted == {i \in DOMAIN tasks : tasks[i] # Idle}
InFlight == {i \in Accepted : tasks[i].pc = "stream"}

\* C24: at most one request to generateChatResponse is in flight, and
\* isGenerating is true from the moment a submit or an edit is accepted until
\* its request ends, the building of the RAG context included.
C24_OneGeneration ==
    /\ Cardinality(InFlight) <= 1
    /\ Accepted # {} => isGenerating

----------------------------------------------------------------------------
(* Properties of generations over several sessions (SpecSwitch) *)

\* The id of the session in cur, 0 for null.
SessionId(cur) == IF cur = {} THEN 0 ELSE Current(cur).id

\* The step delivers a piece of the response of the call in slot i.
PieceDelivered(i) ==
    /\ tasks[i].kind = "submit" /\ tasks[i].pc = "stream"
    /\ tasks'[i].kind = "submit" /\ tasks'[i].pc = "stream"
    /\ tasks'[i].delivered = tasks[i].delivered + 1

\* C23: a piece delivered while the current session is another session than
\* the one the request was submitted in changes neither the messages shown,
\* which are that other session's, nor any stored session.
C23_PieceStep ==
    \A i \in DOMAIN tasks :
        (/\ PieceDelivered(i)
         /\ currentSession # {}
         /\ SessionId(currentSession) # SessionId(tasks[i].currentSession)) =>
            /\ messages' = messages
            /\ chatHistory' = chatHistory

C23_PiecesStayInConversation == [][C23_PieceStep]_vars

\* C25: no session handleDeleteSession was called with is in the sessions
\* state, the list passed to the sidebar.
C25_DeletedStaysDeleted ==
    deletedSessions \cap DOMAIN sessions = {}

----------------------------------------------------------------------------
(* Properties of the RAG setting (SpecRag) *)

\* C14: RAG is on or off per conversation: the setting in force while a
\* session is current is the one chosen while that session was current (off
\* for a new one), whatever was toggled in the other sessions.
C14_RagSettingPerSession ==
    currentSession # {} => ragEnabled = ragSetting[Current(currentSession).id]

\* The step ends the upload handleFileSelect started.
UploadEnded == fileSelect # {} /\ fileSelect' = {}

\* C18: when the upload of ChatInput ends with the document stored, RAG is
\* enabled, whatever was toggled while it ran; when it ends in failure, the
\* RAG setting is as it was.
C18_UploadStep ==
    UploadEnded =>
        IF storedDocs' > storedDocs THEN ragEnabled' ELSE ragEnabled' = ragEnabled

C18_UploadEnablesRag == [][C18_UploadStep]_vars

----------------------------------------------------------------------------
(* Model library: the ModelLibrary component and the services/ollamaManager
   functions of src/src/components/ModelLibrary.tsx. A ModelInfo is
   [name, size, tags]; its description and parameters are not modelled. *)

\* Four of the entries of CURATED_MODELS, in its order.
CURATED_MODELS ==
    <<[name |-> <<"l", "l", "a", "m", "a", "3", ".", "2", ":", "1", "b">>,
      size |-> <<"1", ".", "3", " ", "G", "B">>,
      tags |-> {"recommended", "chat", "small", "fast", "featured"}],
     [name |-> <<"l", "l", "a", "m", "a", "3", ".", "1", ":", "4", "0", "5", "b">>,
      size |-> <<"2", "3", "1", " ", "G", "B">>,
      tags |-> {"chat", "large", "quality"}],
     [name |-> <<"n", "o", "m", "i", "c", "-", "e", "m", "b", "e", "d", "-", "t", "e", "x", "t">>,
      size |-> <<"2", "7", "4", " ", "M", "B">>,
      tags |-> {"embedding", "specialized", "small"}],
     [name |-> <<"a", "l", "l", "-", "m", "i", "n", "i", "l", "m">>,
      size |-> <<"4", "5", " ", "M", "B">>,
      tags |-> {"embedding", "specialized", "small", "fast"}]>>

DecimalDigits == <<"0", "1", "2", "3", "4", "5", "6", "7", "8", "9">>
IsDigit(c) == \E d \in DOMAIN DecimalDigits : DecimalDigits[d] = c
DigitValue(c) == (CHOOSE d \in DOMAIN DecimalDigits : DecimalDigits[d] = c) - 1

\* The decimal numeral of a natural number.
RECURSIVE NumberToString(_)
NumberToString(n) ==
    IF n < 10 THEN <<DecimalDigits[n + 1]>>
    ELSE NumberToString(n \div 10) \o <<DecimalDigits[(n % 10) + 1]>>

\* The value of a string of digits.
RECURSIVE DigitsValue(_)
DigitsValue(s) ==
    IF s = <<>> THEN 0 ELSE 10 * DigitsValue(SliceTo(s, -1)) + DigitValue(s[Len(s)])

RECURSIVE PowerOfTen(_)
PowerOfTen(k) == IF k = 0 THEN 1 ELSE 10 * PowerOfTen(k - 1)

\* The length of the longest prefix of s made of digits.
RECURSIVE DigitsPrefix(_)
DigitsPrefix(s) ==
    IF s # <<>> /\ IsDigit(s[1]) THEN 1 + DigitsPrefix(Tail(s)) ELSE 0

\* parseFloat(s) of a string that starts with an unsigned decimal numeral: the
\* number n / d the longest numeral at the start of s denotes.
parseFloat(s) ==
    LET whole == DigitsPrefix(s)
        rest == Slice(s, whole)
        fraction == IF rest # <<>> /\ rest[1] = "." THEN DigitsPrefix(Tail(rest)) ELSE 0
    IN  [n |-> DigitsValue(SliceTo(s, whole) \o SubSeq(rest, 2, 1 + fraction)),
         d |-> PowerOfTen(fraction)]

\* formatBytes(bytes) of a number of MB (2^20 bytes): the GB with one decimal.
BytesPerKb == 1024
formatBytes(mb) ==
    IF mb = 0 THEN <<"0", " ", "G", "B">>
    ELSE LET tenths == (mb * 10 + (BytesPerKb \div 2)) \div BytesPerKb
         IN  NumberToString(tenths \div 10) \o <<".">> \o NumberToString(tenths % 10)
             \o <<" ", "G", "B">>

\* categorizModel(name) of the names of RemoteModels.
categorizModel(name) ==
    IF name = <<"a", "l", "l", "-", "m", "i", "n", "i", "l", "m">>
    THEN {"chat", "general"}
    ELSE {"small", "fast", "chat", "general", "recommended"}

\* What https://ollama.com/api/tags may answer: no model list, or a list of
\* models with their names and sizes (in MB).
RemoteModels ==
    <<[name |-> <<"l", "l", "a", "m", "a", "3", ".", "2", ":", "1", "b">>, size |-> 1331],
      [name |-> <<"a", "l", "l", "-", "m", "i", "n", "i", "l", "m">>, size |-> 45]>>

\* parseOllamaModels(data)
parseOllamaModels(hasModels, models) ==
    IF ~hasModels THEN CURATED_MODELS
    ELSE [i \in 1..Len(models) |->
            [name |-> models[i].name, size |-> formatBytes(models[i].size),
             tags |-> categorizModel(models[i].name)]]

\* The characters of the model names, in the order localeCompare gives them.
CharOrder ==
    <<"-", ".", ":", "0", "1", "2", "3", "4", "5", "6", "7", "8", "9",
      "a", "b", "c", "d", "e", "f", "g", "h", "i", "j", "k", "l", "m",
      "n", "o", "p", "q", "r", "s", "t", "u", "v", "w", "x", "y", "z">>
CharRank(c) == CHOOSE k \in DOMAIN CharOrder : CharOrder[k] = c

\* a.localeCompare(b) of two model names: negative, 0 or positive.
RECURSIVE localeCompare(_, _)
localeCompare(a, b) ==
    IF a = <<>> THEN (IF b = <<>> THEN 0 ELSE -1)
    ELSE IF b = <<>> THEN 1
    ELSE IF a[1] # b[1] THEN CharRank(a[1]) - CharRank(b[1])
    ELSE localeCompare(Tail(a), Tail(b))

\* The sign of sizeA - sizeB for the numbers parseFloat returned.
SizeDifference(sizeA, sizeB) == sizeA.n * sizeB.d - sizeB.n * sizeA.d

\* The comparator of filteredModels: negative when a goes before b.
CompareModels(by, a, b) ==
    IF by = "name" THEN localeCompare(a.name, b.name)
    ELSE IF by = "size" THEN SizeDifference(parseFloat(a.size), parseFloat(b.size))
    ELSE LET aRecommended == IF "recommended" \in a.tags THEN 0 ELSE 1
             bRecommended == IF "recommended" \in b.tags THEN 0 ELSE 1
         IN  IF aRecommended # bRecommended THEN aRecommended - bRecommended
             ELSE localeCompare(a.name, b.name)

\* Array.prototype.sort with that comparator (a stable sort).
SortModels(by, list) ==
    LET rank == Array([i \in 1..Len(list) |->
                    Cardinality({j \in 1..Len(list) :
                        \/ CompareModels(by, list[j], list[i]) < 0
                        \/ CompareModels(by, list[j], list[i]) = 0 /\ j < i}) + 1])
    IN  Array([k \in 1..Len(list) |-> list[CHOOSE i \in 1..Len(list) : rank[i] = k]])

\* Array.prototype.filter
RECURSIVE FilterModels(_, _)
FilterModels(category, list) ==
    IF list = <<>> THEN <<>>
    ELSE (IF category = "all" \/ category \in list[1].tags THEN <<list[1]>> ELSE <<>>)
         \o FilterModels(category, Tail(list))

\* filteredModels, the list the library shows, with an empty search query.
filteredModels == SortModels(sortBy, FilterModels(selectedCategory, availableModels))

Categories == {"all", "chat", "embedding"}
SortOrders == {"name", "size", "popular"}

\* The host of the page (the dev server proxies /api to Ollama) and the hosts
\* the code names.
SameOrigin == "same-origin"
OllamaCom == "ollama.com"

Names(list) == {list[i].name : i \in 1..Len(list)}

InitLib ==
    /\ availableModels = <<>>
    /\ sortBy = "popular"
    /\ selectedCategory = "all"
    /\ installedModels \in SUBSET {CURATED_MODELS[1].name}
    /\ network = {}
    /\ libPc = "closed"
    /\ documentsStore = EmptyStore
    /\ embeddingModelAvailable = "null"
    /\ now = 0
    /\ uploaded = EmptyStore
    /\ last = [op |-> "none"]
    /\ text = <<>>
    /\ chunkSize = 0
    /\ overlap = 0
    /\ chunks = <<>>
    /\ chunkPc = "off"
    /\ ctxDocs = <<>>
    /\ ctxChunks = <<>>
    /\ ctxQuery = <<>>
    /\ finalContext = <<>>
    /\ ctxPc = "off"
    /\ ChatOff

notLibVars == <<chunkVars, storeVars, ctxVars, chatVars>>

\* The library is opened: loadAvailableModels, fetchAllOllamaModels. The
\* request fails or is not ok (answer "none"), or it returns data without or
\* with a model list.
LoadAvailableModels ==
    /\ libPc = "closed"
    /\ libPc' = "open"
    /\ network' = network \cup {[by |-> "fetchAllOllamaModels", host |-> OllamaCom,
                                 path |-> "/api/tags"]}
    /\ \E answer \in {"none", "data", "models"} :
        availableModels' = IF answer = "none" THEN CURATED_MODELS
                           ELSE parseOllamaModels(answer = "models", RemoteModels)
    /\ UNCHANGED <<sortBy, selectedCategory, installedModels, notLibVars>>

\* onClose
CloseLibrary ==
    /\ libPc = "open"
    /\ libPc' = "closed"
    /\ UNCHANGED <<availableModels, sortBy, selectedCategory, installedModels, network,
                   notLibVars>>

SetSortBy ==
    /\ libPc = "open"
    /\ \E by \in SortOrders : sortBy' = by
    /\ UNCHANGED <<availableModels, selectedCategory, installedModels, network, libPc,
                   notLibVars>>

SetSelectedCategory ==
    /\ libPc = "open"
    /\ \E category \in Categories : selectedCategory' = category
    /\ UNCHANGED <<availableModels, sortBy, installedModels, network, libPc, notLibVars>>

\* handleDownload(modelName) of a model shown: pullModel, which succeeds or throws.
HandleDownload ==
    /\ libPc = "open"
    /\ \E modelName \in Names(filteredModels) \ installedModels : \E pulled \in BOOLEAN :
        /\ network' = network \cup {[by |-> "pullModel", host |-> SameOrigin,
                                     path |-> "/api/pull"]}
        /\ installedModels' = IF pulled THEN installedModels \cup {modelName}
                              ELSE installedModels
    /\ UNCHANGED <<availableModels, sortBy, selectedCategory, libPc, notLibVars>>

\* handleDelete(modelName) of an installed model, confirmed: deleteModel, which
\* succeeds or throws.
HandleDelete ==
    /\ libPc = "open"
    /\ \E modelName \in installedModels : \E deleted \in BOOLEAN :
        /\ network' = network \cup {[by |-> "deleteModel", host |-> SameOrigin,
                                     path |-> "/api/delete"]}
        /\ installedModels' = IF deleted THEN installedModels \ {modelName}
                              ELSE installedModels
    /\ UNCHANGED <<availableModels, sortBy, selectedCategory, libPc, notLibVars>>

NextLib ==
    \/ LoadAvailableModels
    \/ CloseLibrary
    \/ SetSortBy
    \/ SetSelectedCategory
    \/ HandleDownload
    \/ HandleDelete

SpecLib == InitLib /\ [][NextLib]_vars

----------------------------------------------------------------------------
(* Properties of the model library (SpecLib) *)

\* The hosts of the local Ollama server.
LocalHosts == {"localhost:11434", SameOrigin}

\* C15: every request goes to the local Ollama server (localhost:11434, or the
\* page's own origin under /api), never to another host.
C15_RequestsStayLocal ==
    \A request \in network : request.host \in LocalHosts

\* The download size a size string states, in MB.
SizeInMb(size) ==
    LET number == parseFloat(size)
        unit == Slice(size, -2)
    IN  [n |-> number.n * (IF unit = <<"G", "B">> THEN 1024 ELSE 1), d |-> number.d]

\* C16: sorted by size, the library lists the models by ascending download
\* size, also when the sizes have different units ('274 MB' before '1.3 GB').
C16_SizeOrderAscending ==
    (libPc = "open" /\ sortBy = "size") =>
        \A i, j \in 1..Len(filteredModels) :
            i < j => SizeDifference(SizeInMb(filteredModels[i].size),
                                    SizeInMb(filteredModels[j].size)) <= 0

====
